---- MODULE Spec2Model ----
(***************************************************************************)
(* Connection lifecycle of touch_sdk: GattScanner (gatt_scanner.py) and    *)
(* WatchConnector (watch_connector.py) on one asyncio event loop, with     *)
(* Watch.run / Watch.stop (watch.py) on top.                               *)
(*                                                                         *)
(* Spec and FairSpec are the connector with its scanner; ScanSpec is the   *)
(* scanner alone under any caller; LifeSpec adds the start and stop of a   *)
(* Watch; DeclineSpec is the connector among peripherals that all decline; *)
(* ReconnectSpec is the connector with a third client and no lost link.    *)
(* DecodeSpec decodes one Update on a Watch (Watch._on_protobuf) and       *)
(* InfoSpec merges info updates; HapticsSpec builds the InputUpdate of     *)
(* trigger_haptics; WriteSpec runs the write tasks of a Watch on top of the*)
(* connector; CustomSpec handles one notification of a custom              *)
(* characteristic (utils.unpack_chained).                                  *)
(*                                                                         *)
(* Every coroutine is cut at its suspension points: an action runs a       *)
(* handler from one suspension point to the next, as the event loop does.  *)
(* Awaiting a coroutine that never waits for I/O (GattScanner.stop_scanner,*)
(* start_scanner, Watch._on_protobuf, asyncio.gather of nothing) does not  *)
(* suspend.  The transport (bleak) starts one task per advertisement and   *)
(* one task per notification; a task runs up to its first suspension when  *)
(* it is started.                                                          *)
(*                                                                         *)
(* WatchConnector calls the scanner as stop_scanning, start_scanning and   *)
(* forget_address; gatt_scanner.py defines them as stop_scanner,           *)
(* start_scanner and forget_device.  Devices are identified by address.    *)
(*                                                                         *)
(* Transport: client.disconnect() returns without raising; a GATT          *)
(* operation on a client that is no longer connected raises; a             *)
(* notification is delivered only while its client is connected.           *)
(***************************************************************************)
EXTENDS Integers, Sequences, FiniteSets

\* ---- bounds ----
NumDevices == 2     \* peripherals in radio range
MaxClients == 2     \* BleakClient objects created during a run of Spec
MaxSessions == 3    \* BleakClient objects created in DeclineSpec, ReconnectSpec
MaxFrames == 2      \* notifications delivered during the run
MaxWrites == 1      \* outbound write tasks pending at a time
MaxCalls == 2       \* on_scan_result calls of one address suspended at a time
MaxBatch == 2       \* entries of one batch of an Update
MaxTouches == 2     \* touch events of an Update
MaxTasks == 2       \* trigger_haptics / request_model calls of a run
MaxFormat == 3      \* characters of a format descriptor
MaxPayload == 4     \* bytes of a custom-characteristic notification
MaxUpdates == 2     \* info updates received during a run of InfoSpec

Addr == 1..NumDevices
ClientId == 1..MaxSessions
FrameId == 1..MaxFrames

VARIABLES
    scanPc,       \* position of GattScanner.run: "init", "scanning", "stopped"
    start_event,  \* GattScanner.start_event
    stop_event,   \* GattScanner.stop_event
    devices,      \* GattScanner._devices (dedup set)
    approved,     \* WatchConnector._approved_addresses
    informed,     \* WatchConnector._informed_addresses
    clients,      \* WatchConnector._clients: address -> client id, 0 = no entry
    link,         \* transport state of each BleakClient
    sc,           \* the _on_scan_result task of each client
    nclients,     \* clients created so far
    h,            \* the _on_protobuf task of each notification
    nframes,      \* notifications delivered so far
    mon,          \* the _monitor_connections task
    fwd,          \* frames passed to on_message, in call order
    _client,      \* Watch._client: the client of the last approval, 0 = None
    reported,     \* addresses reported since their last forget_device
    pending,      \* on_scan_result calls per address that have not returned
    last,         \* what became of the latest advertisement of each address
    life,         \* Watch.run / Watch.stop: position, _stop_event, teardown
    writes,       \* _async_write_input_characteristic tasks awaiting their write
    asked,        \* the latest request a caller made to the Scanner in ScanSpec:
                  \* "none", "stop", "start"
    message,      \* the Update handed to Watch._on_protobuf or read by _fetch_info
    calls,        \* the callbacks of the Watch made so far, in call order
    watch,        \* the device properties of the Watch (_hand, _battery_percentage, ...)
    ended,        \* how the codec call ended: "none" (not made), "returned", "raised"
    ndecoded,     \* Updates decoded so far
    args,         \* the arguments of trigger_haptics, or the notification of a
                  \* custom characteristic
    input_update, \* the HapticEvent of the InputUpdate that was built
    tasks,        \* the write tasks on the event loop, oldest first
    wire,         \* the write_gatt_char calls of the write tasks, in call order
    issued        \* trigger_haptics / request_model calls made so far

vars == <<scanPc, start_event, stop_event, devices, approved, informed,
          clients, link, sc, nclients, h, nframes, mon, fwd, _client,
          reported, pending, last, life, writes, asked,
          message, calls, watch, ended, ndecoded, args, input_update,
          tasks, wire, issued>>

\* the Watch's codec: what decoding and encoding read and write
codec == <<message, calls, watch, ended, ndecoded, args, input_update,
          tasks, wire, issued>>

\* the write tasks of the Watch
outbound == <<tasks, wire, issued>>

\* what the Connector's handlers never touch
aux == <<reported, pending, last, life, writes, asked, codec>>

\* ---- the state the Connector and the Scanner share, as one value ----
\* The handlers below are sequences of statements; each statement is an
\* operator from such a value to the next one.
Cur ==
    [clients |-> clients, approved |-> approved, devices |-> devices,
     start_event |-> start_event, stop_event |-> stop_event, link |-> link]

Store(s) ==
    /\ clients' = s.clients
    /\ approved' = s.approved
    /\ devices' = s.devices
    /\ start_event' = s.start_event
    /\ stop_event' = s.stop_event
    /\ link' = s.link

\* GattScanner.stop_scanner
stop_scanner(s) == [s EXCEPT !.stop_event = TRUE]

\* start_scanner that keeps the found devices
start_scanner_keep(s) == [s EXCEPT !.start_event = TRUE]

\* GattScanner.start_scanner: resets the found devices, then sets start_event
start_scanner(s) == [s EXCEPT !.devices = {}, !.start_event = TRUE]

\* GattScanner.forget_device
forget_device(s, a) == [s EXCEPT !.devices = @ \ {a}]

\* disconnect_cleanup without the restart of the scanner
disconnect_cleanup_no_restart(s, a) ==
    forget_device([s EXCEPT !.approved = @ \ {a}], a)

\* disconnect_cleanup that restarts the scanner whatever is approved
disconnect_cleanup_restart(s, a) ==
    start_scanner(forget_device([s EXCEPT !.approved = @ \ {a}], a))

\* WatchConnector.disconnect, after the client (if any) was disconnected
disconnect_cleanup(s, a) ==
    LET s1 == [s EXCEPT !.approved = @ \ {a}]
        s2 == forget_device(s1, a)
    IN  IF s2.approved = {} THEN start_scanner(s2) ELSE s2

\* disconnect that reads the client of the address and leaves it tracked
disconnect_begin_no_pop(s, a) ==
    LET c == s.clients[a]
    IN  IF c # 0
        THEN [s |-> s, io |-> c]
        ELSE [s |-> disconnect_cleanup(s, a), io |-> 0]

\* WatchConnector.disconnect up to its suspension point.  Pops the client of
\* the address; with a client, client.disconnect() is awaited (io = the client),
\* without one the cleanup runs at once (io = 0).
disconnect_begin(s, a) ==
    LET c == s.clients[a]
    IN  IF c # 0
        THEN [s |-> [s EXCEPT !.clients[a] = 0], io |-> c]
        ELSE [s |-> disconnect_cleanup(s, a), io |-> 0]

\* WatchConnector.disconnect resumed: client.disconnect() has returned
\* (a link that was lost stays "dropped")
disconnect_end(s, a, c) ==
    disconnect_cleanup(
        [s EXCEPT !.link[c] = IF @ = "dropped" THEN "dropped" ELSE "closed"], a)

\* WatchConnector._handle_disconnect_signal: disconnect(device.address)
_handle_disconnect_signal(s, a) == disconnect_begin(s, a)

\* ---- tasks ----
NoChildren == [a \in Addr |-> [st |-> "none", io |-> 0]]

\* wr: how the ClientInfo write of this handshake ended ("ok", "failed"; "none"
\* without a write), kept until start_notify has returned
IdleScan == [addr |-> 0, pc |-> "none", io |-> 0, sub |-> FALSE, wr |-> "none"]

\* res records how on_approved_connection ended: "ok" (on_connect was called),
\* "fault" (it raised on a connected client), "gone" (it raised because the
\* client was not connected); info: the info read has returned and was merged
IdleFrame == [client |-> 0, sig |-> FALSE, pc |-> "idle", cli |-> 0, io |-> 0,
              child |-> NoChildren, res |-> "none", info |-> FALSE]

\* asyncio.gather over disconnect(address) for the addresses in as
Gather(as) ==
    [a \in Addr |-> IF a \in as THEN [st |-> "pending", io |-> 0]
                               ELSE [st |-> "none", io |-> 0]]

Gathered(child) == \A a \in Addr : child[a].st \in {"none", "done"}

\* one gathered disconnect(b), started: runs up to client.disconnect()
child_begin(child, r, b) ==
    [child EXCEPT ![b] = IF r.io # 0 THEN [st |-> "io", io |-> r.io]
                                     ELSE [st |-> "done", io |-> 0]]

\* one gathered disconnect(b), finished
child_end(child, b) == [child EXCEPT ![b] = [st |-> "done", io |-> 0]]

\* the gather returns when every gathered disconnect has finished
Join(child) == IF Gathered(child) THEN NoChildren ELSE child

\* Watch.run has not been called: _stop_event and _event_loop are None.
\* ev is _stop_event ("none", "clear", "set"); pc is the position of run, or
\* "raised" when a call of stop() has raised (the run is not followed further)
IdleLife == [pc |-> "new", ev |-> "none", child |-> NoChildren]

\* outcomes of a GATT operation (start_notify, read_gatt_char) on client c:
\* on a connected client it succeeds or raises BleakDBusError, on one that is
\* no longer connected it raises BleakDBusError or another BleakError
GattOutcomes(c) ==
    IF link[c] = "connected" THEN {"ok", "dbus"} ELSE {"dbus", "error"}

\* _send_client_info that writes to every address
_send_client_info_unconditional(a) == "write"

\* WatchConnector._send_client_info up to its suspension point, as the position
\* _on_scan_result is left in: an informed address gets no write and the
\* handler goes on to start_notify
_send_client_info(a) == IF a \in informed THEN "notify" ELSE "write"

\* Watch.on_connect is called
on_connect(f) == [f EXCEPT !.res = "ok"]

\* Watch._fetch_info resumed: read_gatt_char has returned, the Update is
\* parsed and its info merged
_fetch_info(f) == [f EXCEPT !.info = TRUE]

\* _on_approved_connection that calls on_connect before it fetches the info
_on_approved_connection_connect_first(f, client) ==
    on_connect([f EXCEPT !.cli = client, !.pc = "approve"])

\* Watch._on_approved_connection up to its suspension point: _client is set
\* and _fetch_info awaits read_gatt_char.  (custom_data is None, the default:
\* _subscribe_to_custom_characteristics returns at once.)
_on_approved_connection(f, client) == [f EXCEPT !.cli = client, !.pc = "approve"]

\* ---- Watch: decoding an Update (watch.py) ----

\* GestureType and Hand members, by value
NONE == 0
PINCH_TAP == 1
CLENCH == 2
RIGHT == 1
LEFT == 2

\* one callback of the Watch made with one argument (0 for a callback without
\* one, or whose argument is not followed here)
Call(cb, arg) == [cb |-> cb, arg |-> arg]

\* Watch.__init__: the device properties before any info was received.
\* screen_resolution <<>> is None.
NewWatch ==
    [hand |-> NONE, battery_percentage |-> -1, screen_resolution |-> <<>>,
     haptics_available |-> FALSE, app_version |-> "", app_id |-> "",
     device_name |-> "", manufacturer |-> "", model_info |-> "",
     available_models |-> <<>>, active_model |-> {}]

\* An Info sub-message without any field set, as its getters read it: numbers
\* 0, strings empty, repeated fields empty, and for the message-typed fields
\* touchScreenResolution and activeModel their default instances.
NoInfo ==
    [hand |-> NONE, batteryPercentage |-> 0,
     touchScreenResolution |-> [x |-> 0, y |-> 0],
     hapticsAvailable |-> FALSE, appVersion |-> "", appId |-> "",
     deviceName |-> "", manufacturer |-> "", modelInfo |-> "",
     availableModels |-> <<>>, activeModel |-> {}]

\* an Update without any field set
NoMessage ==
    [sensorFrames |-> <<>>, gestures |-> <<>>, touchEvents |-> <<>>,
     buttonEvents |-> <<>>, rotaryEvents |-> <<>>, hasInfo |-> FALSE,
     info |-> NoInfo, pressure |-> 0]

\* the running state of a handler of the Watch: the callbacks made, the device
\* properties, and whether a statement has raised (the rest is then skipped)
Running(cs, w) == [calls |-> cs, watch |-> w, raised |-> FALSE]

emit(r, cb, arg) == [r EXCEPT !.calls = Append(@, Call(cb, arg))]

raise(r) == [r EXCEPT !.raised = TRUE]

\* frames[0]
first_frame(frames) == frames[1]

\* frames[-1]
last_frame(frames) == frames[Len(frames)]

\* Watch._on_arm_direction_change: normalize(gravity) divides by the length of
\* the vector (ZeroDivisionError for a zero vector)
_on_arm_direction_change(r, sensor_frame) ==
    IF sensor_frame.grav = 0
    THEN raise(r)
    ELSE emit(r, "on_arm_direction_change", sensor_frame.val)

\* Watch._proto_on_sensors: frames[-1] (IndexError for an empty batch), then
\* on_sensors and the derived arm direction
_proto_on_sensors(r, frames) ==
    IF frames = <<>>
    THEN raise(r)
    ELSE LET sensor_frame == last_frame(frames)
         IN  _on_arm_direction_change(
                 emit(r, "on_sensors", sensor_frame.val), sensor_frame)

\* the loop of _proto_on_gestures over a non-empty batch
RECURSIVE each_gesture(_, _)
each_gesture(r, gestures) ==
    IF gestures = <<>>
    THEN r
    ELSE LET g == Head(gestures)
             r1 == IF g = PINCH_TAP THEN emit(r, "on_tap", 0) ELSE r
         IN  each_gesture(emit(r1, "on_gesture", g), Tail(gestures))

\* Watch._proto_on_gestures
_proto_on_gestures(r, gestures) ==
    IF gestures = <<>>
    THEN emit(r, "on_gesture", NONE)
    ELSE each_gesture(r, gestures)

\* the callback of a touch event type; "" for a type without one
touch_callback(eventType) ==
    CASE eventType = "BEGIN" -> "on_touch_down"
      [] eventType = "END" -> "on_touch_up"
      [] eventType = "MOVE" -> "on_touch_move"
      [] eventType = "CANCEL" -> "on_touch_cancel"
      [] OTHER -> ""

\* Watch._proto_on_touch_events: touch.coords[0] (IndexError without
\* coordinates), then the callback of the event type
RECURSIVE _proto_on_touch_events(_, _)
_proto_on_touch_events(r, touch_events) ==
    IF touch_events = <<>> \/ r.raised
    THEN r
    ELSE LET touch == Head(touch_events)
             cb == touch_callback(touch.eventType)
             r1 == IF touch.coords = <<>> THEN raise(r)
                   ELSE IF cb = "" THEN r
                   ELSE emit(r, cb, touch.coords[1])
         IN  _proto_on_touch_events(r1, Tail(touch_events))

\* Watch._proto_on_button_events
_proto_on_button_events(r, buttons) ==
    IF \E i \in 1..Len(buttons) : buttons[i] = 0
    THEN emit(r, "on_back_button", 0)
    ELSE r

\* the direction on_rotary gets for a wire step: -rotary.step
rotary_direction(step) == 0 - step

\* Watch._proto_on_rotary_events
RECURSIVE _proto_on_rotary_events(_, _)
_proto_on_rotary_events(r, rotary_events) ==
    IF rotary_events = <<>>
    THEN r
    ELSE _proto_on_rotary_events(
             emit(r, "on_rotary", rotary_direction(Head(rotary_events))),
             Tail(rotary_events))

\* a value as a condition: 0, FALSE, "" and empty containers are false
Truthy(v, default) == v # default

\* _proto_on_info without the early return for Hand.NONE
battery_only_ignored(info) == FALSE

\* Watch._proto_on_info: "If hand is not present, only battery is updated"
battery_only(info) == info.hand = NONE

\* Watch._proto_on_info.  Every field is tested as the code tests it: numbers,
\* strings and repeated fields by their truth value, touchScreenResolution
\* by "is not None" and activeModel by the truth value of a message, both of
\* which hold for every message read from an Info.
_proto_on_info(r, info) ==
    LET w0 == r.watch
        w1 == IF Truthy(info.batteryPercentage, 0)
              THEN [w0 EXCEPT !.battery_percentage = info.batteryPercentage]
              ELSE w0
        w2 == [w1 EXCEPT !.hand = info.hand]
        w3 == [w2 EXCEPT !.screen_resolution =
                  <<info.touchScreenResolution.x, info.touchScreenResolution.y>>]
        w4 == IF Truthy(info.hapticsAvailable, FALSE)
              THEN [w3 EXCEPT !.haptics_available = info.hapticsAvailable]
              ELSE w3
        w5 == IF Truthy(info.appVersion, "")
              THEN [w4 EXCEPT !.app_version = info.appVersion] ELSE w4
        w6 == IF Truthy(info.appId, "")
              THEN [w5 EXCEPT !.app_id = info.appId] ELSE w5
        w7 == IF Truthy(info.deviceName, "")
              THEN [w6 EXCEPT !.device_name = info.deviceName] ELSE w6
        w8 == IF Truthy(info.manufacturer, "")
              THEN [w7 EXCEPT !.manufacturer = info.manufacturer] ELSE w7
        w9 == [w8 EXCEPT !.active_model = info.activeModel]
        w10 == IF Truthy(info.availableModels, <<>>)
               THEN [w9 EXCEPT !.available_models = info.availableModels]
               ELSE w9
        w11 == IF Truthy(info.modelInfo, "")
               THEN [w10 EXCEPT !.model_info = info.modelInfo] ELSE w10
    IN  IF battery_only(info)
        THEN [r EXCEPT !.watch = w1]
        ELSE emit([r EXCEPT !.watch = w11], "on_info_update", 0)

\* a statement of a handler: skipped once an earlier one has raised
Then(r, next) == IF r.raised THEN r ELSE next

\* Watch._on_protobuf with the rotary events handled before the gestures
Watch_on_protobuf_rotary_first(r, m) ==
    LET r1 == emit(r, "on_gesture_probability", 0)
        r2 == _proto_on_sensors(r1, m.sensorFrames)
        r3 == Then(r2, _proto_on_rotary_events(r2, m.rotaryEvents))
        r4 == Then(r3, _proto_on_gestures(r3, m.gestures))
        r5 == Then(r4, _proto_on_touch_events(r4, m.touchEvents))
        r6 == Then(r5, _proto_on_button_events(r5, m.buttonEvents))
        r7 == Then(r6, IF m.hasInfo THEN _proto_on_info(r6, m.info) ELSE r6)
        r8 == Then(r7, IF m.pressure # 0
                       THEN emit(r7, "on_pressure", m.pressure) ELSE r7)
    IN  r8

\* Watch._on_protobuf(message): the callbacks in the order of its statements
Watch_on_protobuf(r, m) ==
    LET r1 == emit(r, "on_gesture_probability", 0)
        r2 == _proto_on_sensors(r1, m.sensorFrames)
        r3 == Then(r2, _proto_on_gestures(r2, m.gestures))
        r4 == Then(r3, _proto_on_touch_events(r3, m.touchEvents))
        r5 == Then(r4, _proto_on_button_events(r4, m.buttonEvents))
        r6 == Then(r5, _proto_on_rotary_events(r5, m.rotaryEvents))
        r7 == Then(r6, IF m.hasInfo THEN _proto_on_info(r6, m.info) ELSE r6)
        r8 == Then(r7, IF m.pressure # 0
                       THEN emit(r7, "on_pressure", m.pressure) ELSE r7)
    IN  r8

\* ---- utils.unpack_chained ----
\* A format string is a sequence of characters; a payload is a sequence of
\* bytes.

endianness_tokens == {"@", "<", ">", "=", "!"}

\* the struct codes of the model: b is a signed byte, h a signed 16-bit integer
StructCodes == {"b", "h"}

\* struct.calcsize of one code
CodeSize(c) == IF c = "h" THEN 2 ELSE 1

\* format_string if format_string[0] in endianness_tokens else "@" + format_string
format_description(format_string) ==
    IF format_string[1] \in endianness_tokens
    THEN format_string
    ELSE <<"@">> \o format_string

\* re.split("(?=[@<>=!])", format_description): a new piece starts before every
\* token, so the first piece is empty when the description starts with one
RECURSIVE re_split(_, _)
re_split(description, pieces) ==
    IF description = <<>>
    THEN pieces
    ELSE LET c == Head(description) IN
         re_split(Tail(description),
                  IF c \in endianness_tokens
                  THEN Append(pieces, <<c>>)
                  ELSE [pieces EXCEPT ![Len(pieces)] = Append(@, c)])

format_strings(description) == re_split(description, << <<>> >>)

\* the byte order of a struct format: its leading token, native without one
ByteOrder(fmt) ==
    IF fmt # <<>> /\ fmt[1] \in endianness_tokens THEN fmt[1] ELSE "@"

\* the codes of a struct format
Codes(fmt) ==
    IF fmt # <<>> /\ fmt[1] \in endianness_tokens THEN Tail(fmt) ELSE fmt

\* struct.error: bad char in struct format
bad_format(fmt) == \E i \in 1..Len(Codes(fmt)) : Codes(fmt)[i] \notin StructCodes

\* where a value of code c starts when the previous one ended at off: native
\* mode aligns every value to its size, the other modes do not pad
Aligned(off, c, order) ==
    IF order = "@"
    THEN ((off + CodeSize(c) - 1) \div CodeSize(c)) * CodeSize(c)
    ELSE off

RECURSIVE end_offset(_, _, _)
end_offset(codes, order, off) ==
    IF codes = <<>>
    THEN off
    ELSE end_offset(Tail(codes), order,
                    Aligned(off, Head(codes), order) + CodeSize(Head(codes)))

\* struct.calcsize(fmt)
calcsize(fmt) == end_offset(Codes(fmt), ByteOrder(fmt), 0)

\* a two's complement number of the given width
Signed(v, bits) == IF v >= 2 ^ (bits - 1) THEN v - 2 ^ bits ELSE v

\* the value of code c in the bytes at off; native order is little-endian on
\* the platforms the transport supports
struct_value(c, order, piece, off) ==
    IF c = "h"
    THEN IF order \in {">", "!"}
         THEN Signed(256 * piece[off + 1] + piece[off + 2], 16)
         ELSE Signed(piece[off + 1] + 256 * piece[off + 2], 16)
    ELSE Signed(piece[off + 1], 8)

RECURSIVE struct_values(_, _, _, _)
struct_values(codes, order, piece, off) ==
    IF codes = <<>>
    THEN <<>>
    ELSE LET at == Aligned(off, Head(codes), order) IN
         <<struct_value(Head(codes), order, piece, at)>>
             \o struct_values(Tail(codes), order, piece, at + CodeSize(Head(codes)))

\* struct.error: unpack requires a buffer of calcsize(fmt) bytes
unpack_raises(fmt, piece) == Len(piece) # calcsize(fmt)

\* struct.unpack(fmt, piece)
unpack(fmt, piece) == struct_values(Codes(fmt), ByteOrder(fmt), piece, 0)

\* accumulate that gives each size instead of the running total
accumulate_each(sizes, k) == IF k = 0 THEN 0 ELSE sizes[k]

\* itertools.accumulate(sizes), k-th element
RECURSIVE accumulate(_, _)
accumulate(sizes, k) == IF k = 0 THEN 0 ELSE accumulate(sizes, k - 1) + sizes[k]

\* data[start:end]
Slice(data, start, end) ==
    LET n == Len(data)
        a == IF start < n THEN start ELSE n
        b == IF end < n THEN end ELSE n
    IN SubSeq(data, a + 1, b)

\* chain(*nested_content)
RECURSIVE chain(_)
chain(nested) == IF nested = <<>> THEN <<>> ELSE Head(nested) \o chain(Tail(nested))

\* utils.unpack_chained(format_string, data): the flat tuple, unless an
\* exception left the function (IndexError for an empty format string,
\* struct.error from calcsize or unpack)
unpack_chained(format_string, data) ==
    IF format_string = <<>>
    THEN [raised |-> TRUE, content |-> <<>>]
    ELSE
    LET fmts == format_strings(format_description(format_string)) IN
    IF \E k \in 1..Len(fmts) : bad_format(fmts[k])
    THEN [raised |-> TRUE, content |-> <<>>]
    ELSE
    LET sizes == [k \in 1..Len(fmts) |-> calcsize(fmts[k])]
        data_pieces == [k \in 1..(Len(fmts) - 1) |->
                           Slice(data, accumulate(sizes, k), accumulate(sizes, k + 1))]
    IN
    IF \E k \in 1..(Len(fmts) - 1) : unpack_raises(fmts[k + 1], data_pieces[k])
    THEN [raised |-> TRUE, content |-> <<>>]
    ELSE [raised |-> FALSE,
          content |-> chain([k \in 1..(Len(fmts) - 1) |->
                                unpack(fmts[k + 1], data_pieces[k])])]

\* ---- Watch: encoding a haptics request ----

\* Python numbers: a finite number in tenths, or one of the float values nan,
\* inf and -inf
Num(v) == [k |-> "num", v |-> v]
Nan == [k |-> "nan", v |-> 0]
Inf == [k |-> "inf", v |-> 1]
NegInf == [k |-> "inf", v |-> -1]

\* a < b as Python compares numbers: every comparison with nan is false
Less(a, b) ==
    CASE a.k = "nan" \/ b.k = "nan" -> FALSE
      [] a.k = "num" /\ b.k = "num" -> a.v < b.v
      [] a.k = "inf" /\ b.k = "num" -> a.v < 0
      [] a.k = "num" /\ b.k = "inf" -> b.v > 0
      [] OTHER -> a.v < b.v

\* max(a, b) and min(a, b) of Python: the first argument unless the second is
\* greater (less)
py_max(a, b) == IF Less(a, b) THEN b ELSE a

py_min(a, b) == IF Less(b, a) THEN b ELSE a

\* int(x) raises for nan (ValueError) and for inf (OverflowError)
int_raises(x) == x.k # "num"

\* int(x) of a finite number: the fraction is cut off, towards zero
int(x) == Num(IF x.v >= 0 THEN (x.v \div 10) * 10 ELSE 0 - (((0 - x.v) \div 10) * 10))

\* clamped_intensity = min(max(intensity, 0.0), 1.0)
clamp_intensity(intensity) == py_min(py_max(intensity, Num(0)), Num(10))

\* clamped_length = min(max(int(length), 0), 5000)
clamp_length(length) == py_min(py_max(int(length), Num(0)), Num(50000))

\* Watch._create_haptics_update: the HapticEvent built, unless int(length)
\* raised
_create_haptics_update(intensity, length) ==
    IF int_raises(length)
    THEN [raised |-> TRUE, intensity |-> Num(0), length |-> Num(0)]
    ELSE [raised |-> FALSE,
          intensity |-> clamp_intensity(intensity),
          length |-> clamp_length(length)]

\* WatchConnector, GattScanner and the lifecycle fields of the Watch after
\* construction
Constructed ==
    /\ scanPc = "init"
    /\ start_event = FALSE
    /\ stop_event = FALSE
    /\ devices = {}
    /\ approved = {}
    /\ informed = {}
    /\ clients = [a \in Addr |-> 0]
    /\ link = [c \in ClientId |-> "none"]
    /\ sc = [c \in ClientId |-> IdleScan]
    /\ nclients = 0
    /\ h = [k \in FrameId |-> IdleFrame]
    /\ nframes = 0
    /\ mon = [pc |-> "off", child |-> NoChildren, seen |-> {}]
    /\ fwd = <<>>
    /\ _client = 0
    /\ reported = {}
    /\ pending = [a \in Addr |-> 0]
    /\ last = [a \in Addr |-> "none"]
    /\ life = IdleLife
    /\ writes = 0
    /\ asked = "none"

\* the system after construction: nothing was decoded
Init ==
    /\ Constructed
    /\ message = NoMessage
    /\ calls = <<>>
    /\ watch = NewWatch
    /\ ended = "none"
    /\ ndecoded = 0
    /\ args = <<>>
    /\ input_update = <<>>
    /\ tasks = <<>>
    /\ wire = <<>>
    /\ issued = 0

\* WatchConnector.run: starts the monitor task, then enters GattScanner.run,
\* which clears both events and starts the BleakScanner.
run ==
    /\ scanPc = "init"
    /\ scanPc' = "scanning"
    /\ start_event' = FALSE
    /\ stop_event' = FALSE
    /\ mon' = [mon EXCEPT !.pc = "sleep"]
    /\ UNCHANGED <<devices, approved, informed, clients, link, sc, nclients,
                   h, nframes, fwd>>
    /\ UNCHANGED <<_client, aux>>

\* GattScanner.run: stop_event.wait() returns, the BleakScanner context is
\* left, start_event.wait() begins.
scanner_stopped ==
    /\ scanPc = "scanning"
    /\ stop_event
    /\ scanPc' = "stopped"
    /\ UNCHANGED <<start_event, stop_event, devices, approved, informed,
                   clients, link, sc, nclients, h, nframes, mon, fwd>>
    /\ UNCHANGED <<_client, aux>>

\* GattScanner.run: start_event.wait() returns, the loop body starts again:
\* both events are cleared and a new BleakScanner is started.
scanner_restarted ==
    /\ scanPc = "stopped"
    /\ start_event
    /\ scanPc' = "scanning"
    /\ start_event' = FALSE
    /\ stop_event' = FALSE
    /\ UNCHANGED <<devices, approved, informed, clients, link, sc, nclients,
                   h, nframes, mon, fwd>>
    /\ UNCHANGED <<_client, aux>>

\* _detection_callback that never takes a device as seen
seen_nothing(d) == FALSE

\* GattScanner._detection_callback, the dedup check: device in self._devices
seen(d) == d \in devices

\* GattScanner._detection_callback: self._devices.add(device), made before the
\* service and name checks
remember(d) == devices' = devices \cup {d}

\* GattScanner._detection_callback for an advertisement of device d.
\* matches: the advertisement carries the service UUID and passes the name
\* filter (in Spec every advertisement does: the BleakScanner filters by
\* service UUID and no name filter is configured).  A matching new device gets a BleakClient and _on_scan_result runs
\* up to client.connect().
_detection_callback(d, matches) ==
    /\ scanPc = "scanning"
    /\ ~seen(d)
    /\ remember(d)
    /\ IF matches
       THEN /\ nclients < MaxSessions
            /\ nclients' = nclients + 1
            /\ sc' = [sc EXCEPT ![nclients + 1] =
                        [IdleScan EXCEPT !.addr = d, !.pc = "connect"]]
            /\ link' = [link EXCEPT ![nclients + 1] = "connecting"]
       ELSE UNCHANGED <<nclients, sc, link>>
    /\ UNCHANGED <<scanPc, start_event, stop_event, approved, informed,
                   clients, h, nframes, mon, fwd>>
    /\ UNCHANGED <<_client, aux>>

\* ---- WatchConnector._on_scan_result ----

\* client.connect() returns or raises; on success the client is tracked and
\* _send_client_info runs up to write_gatt_char (skipped for an informed
\* address), then start_notify is awaited.  TimeoutError leads to disconnect,
\* any other error leaves the handler.
connect_done(c, outcome) ==
    LET a == sc[c].addr IN
    /\ sc[c].pc = "connect"
    /\ CASE outcome = "ok" ->
              /\ Store([Cur EXCEPT !.clients[a] = c, !.link[c] = "connected"])
              /\ sc' = [sc EXCEPT ![c].pc = _send_client_info(a)]
         [] outcome = "timeout" ->
              LET r == disconnect_begin([Cur EXCEPT !.link[c] = "closed"], a) IN
              /\ Store(r.s)
              /\ sc' = [sc EXCEPT ![c].pc = IF r.io # 0 THEN "disc" ELSE "done",
                                  ![c].io = r.io]
         [] outcome = "error" ->
              /\ Store([Cur EXCEPT !.link[c] = "closed"])
              /\ sc' = [sc EXCEPT ![c].pc = "dead"]
    /\ UNCHANGED <<scanPc, informed, nclients, h, nframes, mon, fwd>>
    /\ UNCHANGED <<_client, aux>>

\* _send_client_info: write_gatt_char returns or raises BleakDBusError or
\* BleakError; either way the address is marked informed.
write_done(c, ok) ==
    /\ sc[c].pc = "write"
    /\ informed' = informed \cup {sc[c].addr}
    /\ sc' = [sc EXCEPT ![c].pc = "notify",
                        ![c].wr = IF ok THEN "ok" ELSE "failed"]
    /\ UNCHANGED <<scanPc, start_event, stop_event, devices, approved, clients,
                   link, nclients, h, nframes, mon, fwd>>
    /\ UNCHANGED <<_client, aux>>

\* start_notify returns or raises; BleakDBusError leads to disconnect
notify_done(c, outcome) ==
    LET a == sc[c].addr IN
    /\ sc[c].pc = "notify"
    /\ outcome \in GattOutcomes(c)
    /\ CASE outcome = "ok" ->
              /\ sc' = [sc EXCEPT ![c].pc = "done", ![c].sub = TRUE,
                                  ![c].wr = "none"]
              /\ Store(Cur)
         [] outcome = "dbus" ->
              LET r == disconnect_begin(Cur, a) IN
              /\ Store(r.s)
              /\ sc' = [sc EXCEPT ![c].pc = IF r.io # 0 THEN "disc" ELSE "done",
                                  ![c].io = r.io, ![c].wr = "none"]
         [] outcome = "error" ->
              /\ sc' = [sc EXCEPT ![c].pc = "dead", ![c].wr = "none"]
              /\ Store(Cur)
    /\ UNCHANGED <<scanPc, informed, nclients, h, nframes, mon, fwd>>
    /\ UNCHANGED <<_client, aux>>

\* the disconnect called by _on_scan_result resumes
scan_disconnected(c) ==
    /\ sc[c].pc = "disc"
    /\ Store(disconnect_end(Cur, sc[c].addr, sc[c].io))
    /\ sc' = [sc EXCEPT ![c].pc = "done", ![c].io = 0]
    /\ UNCHANGED <<scanPc, informed, nclients, h, nframes, mon, fwd>>
    /\ UNCHANGED <<_client, aux>>

\* the radio link of a tracked client drops: client.is_connected turns False
link_lost(c) ==
    /\ link[c] = "connected"
    /\ \E a \in Addr : clients[a] = c
    /\ link' = [link EXCEPT ![c] = "dropped"]
    /\ UNCHANGED <<scanPc, start_event, stop_event, devices, approved, informed,
                   clients, sc, nclients, h, nframes, mon, fwd>>
    /\ UNCHANGED <<_client, aux>>

\* ---- WatchConnector._on_protobuf ----

\* A notification of client c arrives and its handler runs up to the first
\* suspension.  sig: the frame carries the disconnect signal.
_on_protobuf(c, sig) ==
    LET a == sc[c].addr
        k == nframes + 1
        r == _handle_disconnect_signal(Cur, a)
        s1 == [Cur EXCEPT !.approved = @ \cup {a}]
        client == clients[a]
        s2 == stop_scanner(s1)
        others == {b \in Addr \ {a} : clients[b] # 0}
        f == [IdleFrame EXCEPT !.client = c, !.cli = client]
    IN
    /\ sc[c].sub
    /\ link[c] = "connected"
    /\ nframes < MaxFrames
    /\ nframes' = k
    /\ IF sig
       THEN \* _handle_disconnect_signal
            /\ Store(r.s)
            /\ h' = [h EXCEPT ![k] = [IdleFrame EXCEPT !.client = c, !.sig = TRUE,
                        !.pc = IF r.io # 0 THEN "disc" ELSE "done", !.io = r.io]]
            /\ fwd' = fwd
            /\ _client' = _client
       ELSE \* _handle_approved_connection, then on_message
            IF a \in approved
            THEN /\ Store(Cur)
                 /\ h' = [h EXCEPT ![k] = [IdleFrame EXCEPT !.client = c, !.pc = "done"]]
                 /\ fwd' = Append(fwd, k)
                 /\ _client' = _client
            ELSE IF client = 0
            THEN /\ Store(s1)
                 /\ h' = [h EXCEPT ![k] = [IdleFrame EXCEPT !.client = c, !.pc = "done"]]
                 /\ fwd' = Append(fwd, k)
                 /\ _client' = _client
            ELSE /\ Store(s2)
                 /\ h' = [h EXCEPT ![k] =
                            IF others = {}
                            THEN _on_approved_connection(f, client)
                            ELSE [f EXCEPT !.pc = "gather",
                                           !.child = Gather(others)]]
                 /\ _client' = IF others = {} THEN client ELSE _client
                 /\ fwd' = fwd
    /\ UNCHANGED <<scanPc, informed, sc, nclients, mon>>
    /\ UNCHANGED aux

\* _handle_approved_connection: a gathered disconnect(b) starts
approval_disconnect_begin(k, b) ==
    LET r == disconnect_begin(Cur, b)
        ch == child_begin(h[k].child, r, b)
    IN
    /\ h[k].pc = "gather"
    /\ h[k].child[b].st = "pending"
    /\ Store(r.s)
    /\ h' = [h EXCEPT ![k] =
                IF Gathered(ch)
                THEN _on_approved_connection([@ EXCEPT !.child = Join(ch)], @.cli)
                ELSE [@ EXCEPT !.child = ch]]
    /\ _client' = IF Gathered(ch) THEN h[k].cli ELSE _client
    /\ UNCHANGED <<scanPc, informed, sc, nclients, nframes, mon, fwd>>
    /\ UNCHANGED aux

\* _handle_approved_connection: a gathered disconnect(b) resumes; after the
\* last one on_approved_connection runs up to read_gatt_char
approval_disconnect_end(k, b) ==
    LET ch == child_end(h[k].child, b) IN
    /\ h[k].pc = "gather"
    /\ h[k].child[b].st = "io"
    /\ Store(disconnect_end(Cur, b, h[k].child[b].io))
    /\ h' = [h EXCEPT ![k] =
                IF Gathered(ch)
                THEN _on_approved_connection([@ EXCEPT !.child = Join(ch)], @.cli)
                ELSE [@ EXCEPT !.child = ch]]
    /\ _client' = IF Gathered(ch) THEN h[k].cli ELSE _client
    /\ UNCHANGED <<scanPc, informed, sc, nclients, nframes, mon, fwd>>
    /\ UNCHANGED aux

\* on_approved_connection returns (on_connect was called) or raises;
\* BleakDBusError leads to disconnect; then on_message gets the frame.
approve_done(k, outcome) ==
    LET a == sc[h[k].client].addr
        r == disconnect_begin(Cur, a)
        raised == IF link[h[k].cli] = "connected" THEN "fault" ELSE "gone"
    IN
    /\ h[k].pc = "approve"
    /\ outcome \in GattOutcomes(h[k].cli)
    /\ CASE outcome = "ok" ->
              /\ Store(Cur)
              /\ h' = [h EXCEPT ![k] = on_connect(_fetch_info([@ EXCEPT !.pc = "done"]))]
              /\ fwd' = Append(fwd, k)
         [] outcome = "dbus" ->
              /\ Store(r.s)
              /\ h' = [h EXCEPT ![k].pc = IF r.io # 0 THEN "disc" ELSE "done",
                                ![k].io = r.io, ![k].res = raised]
              /\ fwd' = IF r.io # 0 THEN fwd ELSE Append(fwd, k)
         [] outcome = "error" ->
              /\ Store(Cur)
              /\ h' = [h EXCEPT ![k].pc = "dead", ![k].res = raised]
              /\ fwd' = fwd
    /\ UNCHANGED <<scanPc, informed, sc, nclients, nframes, mon>>
    /\ UNCHANGED <<_client, aux>>

\* the disconnect called by _handle_disconnect_signal or after a failed
\* approval resumes; in the second case on_message gets the frame
frame_disconnected(k) ==
    /\ h[k].pc = "disc"
    /\ Store(disconnect_end(Cur, sc[h[k].client].addr, h[k].io))
    /\ h' = [h EXCEPT ![k].pc = "done", ![k].io = 0]
    /\ fwd' = IF h[k].sig THEN fwd ELSE Append(fwd, k)
    /\ UNCHANGED <<scanPc, informed, sc, nclients, nframes, mon>>
    /\ UNCHANGED <<_client, aux>>

\* ---- WatchConnector._monitor_connections ----

\* Unconnected restricted to approved addresses
Unconnected_approved_only ==
    {a \in approved : clients[a] # 0 /\ link[clients[a]] # "connected"}

\* addresses whose tracked client reports not connected
Unconnected == {a \in Addr : clients[a] # 0 /\ link[clients[a]] # "connected"}

\* A pass of the monitor begins: disconnect is gathered for the addresses in
\* Unconnected; with none the pass is over at once and the monitor sleeps.
\* seen records the tracked clients that report not connected at this moment.
_monitor_connections ==
    /\ mon.pc = "sleep"
    /\ mon' = [pc |-> IF Unconnected = {} THEN "sleep" ELSE "gather",
               child |-> Gather(Unconnected),
               seen |-> {c \in ClientId : /\ \E a \in Addr : clients[a] = c
                                          /\ link[c] # "connected"}]
    /\ UNCHANGED <<scanPc, start_event, stop_event, devices, approved, informed,
                   clients, link, sc, nclients, h, nframes, fwd>>
    /\ UNCHANGED <<_client, aux>>

monitor_disconnect_begin(b) ==
    LET r == disconnect_begin(Cur, b)
        ch == child_begin(mon.child, r, b)
    IN
    /\ mon.pc = "gather"
    /\ mon.child[b].st = "pending"
    /\ Store(r.s)
    /\ mon' = [mon EXCEPT !.child = Join(ch),
                          !.pc = IF Gathered(ch) THEN "sleep" ELSE "gather"]
    /\ UNCHANGED <<scanPc, informed, sc, nclients, h, nframes, fwd>>
    /\ UNCHANGED <<_client, aux>>

monitor_disconnect_end(b) ==
    LET ch == child_end(mon.child, b) IN
    /\ mon.pc = "gather"
    /\ mon.child[b].st = "io"
    /\ Store(disconnect_end(Cur, b, mon.child[b].io))
    /\ mon' = [mon EXCEPT !.child = Join(ch),
                          !.pc = IF Gathered(ch) THEN "sleep" ELSE "gather"]
    /\ UNCHANGED <<scanPc, informed, sc, nclients, h, nframes, fwd>>
    /\ UNCHANGED <<_client, aux>>

ConnectOutcome == {"ok", "timeout", "error"}
GattOutcome == {"ok", "dbus", "error"}

Next ==
    \/ run
    \/ scanner_stopped
    \/ scanner_restarted
    \/ \E d \in Addr : nclients < MaxClients /\ _detection_callback(d, TRUE)
    \/ \E c \in ClientId, outcome \in ConnectOutcome : connect_done(c, outcome)
    \/ \E c \in ClientId, ok \in BOOLEAN : write_done(c, ok)
    \/ \E c \in ClientId, outcome \in GattOutcome : notify_done(c, outcome)
    \/ \E c \in ClientId : scan_disconnected(c)
    \/ \E c \in ClientId : link_lost(c)
    \/ \E c \in ClientId, sig \in BOOLEAN : _on_protobuf(c, sig)
    \/ \E k \in FrameId, b \in Addr : approval_disconnect_begin(k, b)
    \/ \E k \in FrameId, b \in Addr : approval_disconnect_end(k, b)
    \/ \E k \in FrameId, outcome \in GattOutcome : approve_done(k, outcome)
    \/ \E k \in FrameId : frame_disconnected(k)
    \/ _monitor_connections
    \/ \E b \in Addr : monitor_disconnect_begin(b)
    \/ \E b \in Addr : monitor_disconnect_end(b)

Spec == Init /\ [][Next]_vars

\* What the event loop does on its own: ready tasks run and started I/O
\* completes.  Advertisements, notifications and link losses are up to the
\* peripherals.
Internal ==
    \/ run
    \/ scanner_stopped
    \/ scanner_restarted
    \/ \E c \in ClientId, outcome \in ConnectOutcome : connect_done(c, outcome)
    \/ \E c \in ClientId, ok \in BOOLEAN : write_done(c, ok)
    \/ \E c \in ClientId, outcome \in GattOutcome : notify_done(c, outcome)
    \/ \E c \in ClientId : scan_disconnected(c)
    \/ \E k \in FrameId, b \in Addr : approval_disconnect_begin(k, b)
    \/ \E k \in FrameId, b \in Addr : approval_disconnect_end(k, b)
    \/ \E k \in FrameId, outcome \in GattOutcome : approve_done(k, outcome)
    \/ \E k \in FrameId : frame_disconnected(k)
    \/ _monitor_connections
    \/ \E b \in Addr : monitor_disconnect_begin(b)
    \/ \E b \in Addr : monitor_disconnect_end(b)

FairSpec == Spec /\ WF_vars(Internal)

\* ---- the Scanner on its own ----
\* GattScanner with any connector behind it: on_scan_result is a coroutine
\* that is suspended when it is called and returns later, and the Scanner's
\* methods are called as WatchConnector calls them, at any time of the run.

\* GattScanner._detection_callback for an advertisement of device d while the
\* BleakScanner runs.  A device in _devices is dropped; otherwise it is added
\* to _devices and, if it matches (service UUID and name filter), reported.
advertisement(d, matches) ==
    /\ scanPc = "scanning"
    /\ IF seen(d)
       THEN /\ last' = [last EXCEPT ![d] = "dup"]
            /\ UNCHANGED <<devices, reported, pending>>
       ELSE /\ remember(d)
            /\ IF matches
               THEN /\ pending[d] < MaxCalls
                    /\ reported' = reported \cup {d}
                    /\ pending' = [pending EXCEPT ![d] = @ + 1]
                    /\ last' = [last EXCEPT ![d] = "reported"]
               ELSE /\ last' = [last EXCEPT ![d] = "filtered"]
                    /\ UNCHANGED <<reported, pending>>
    /\ UNCHANGED <<scanPc, start_event, stop_event, approved, informed, clients,
                   link, sc, nclients, h, nframes, mon, fwd, _client, life,
                   writes>>
    /\ UNCHANGED <<asked, codec>>

\* on_scan_result returns
scan_result_returned(d) ==
    /\ pending[d] > 0
    /\ pending' = [pending EXCEPT ![d] = @ - 1]
    /\ UNCHANGED <<scanPc, start_event, stop_event, devices, approved, informed,
                   clients, link, sc, nclients, h, nframes, mon, fwd, _client,
                   reported, last, life, writes>>
    /\ UNCHANGED <<asked, codec>>

\* the connector calls stop_scanning
stop_scanning ==
    /\ scanPc # "init"
    /\ Store(stop_scanner(Cur))
    /\ asked' = "stop"
    /\ UNCHANGED <<scanPc, informed, sc, nclients, h, nframes, mon, fwd,
                   _client, reported, pending, last, life, writes, codec>>

\* the connector calls start_scanning
start_scanning ==
    /\ scanPc # "init"
    /\ Store(start_scanner(Cur))
    /\ asked' = "start"
    /\ UNCHANGED <<scanPc, informed, sc, nclients, h, nframes, mon, fwd,
                   _client, reported, pending, last, life, writes, codec>>

\* the connector calls forget_address(a)
forget_address(a) ==
    /\ scanPc # "init"
    /\ Store(forget_device(Cur, a))
    /\ reported' = reported \ {a}
    /\ UNCHANGED <<scanPc, informed, sc, nclients, h, nframes, mon, fwd,
                   _client, pending, last, life, writes>>
    /\ UNCHANGED <<asked, codec>>

ScanNext ==
    \/ run
    \/ scanner_stopped
    \/ scanner_restarted
    \/ \E d \in Addr, matches \in BOOLEAN : advertisement(d, matches)
    \/ \E d \in Addr : scan_result_returned(d)
    \/ stop_scanning
    \/ start_scanning
    \/ \E a \in Addr : forget_address(a)

ScanSpec == Init /\ [][ScanNext]_vars

\* ---- Watch.run and Watch.stop ----
\* WatchConnector.start and WatchConnector.stop, which Watch.run awaits, are
\* not in watch_connector.py; they follow the specification: start begins
\* scanning and the liveness monitor and returns; stop signals the Scanner to
\* stop reporting, force-disconnects every tracked session, then cancels the
\* monitor and the pending outbound writes.

\* WatchConnector.start: the monitor task is started and the scan loop entered
connector_start ==
    /\ scanPc' = "scanning"
    /\ start_event' = FALSE
    /\ stop_event' = FALSE
    /\ mon' = [mon EXCEPT !.pc = "sleep"]

\* WatchConnector.stop, last part: the monitor task (with the disconnects it
\* has gathered) and the pending write tasks are cancelled
connector_cancel_tasks ==
    /\ mon' = [pc |-> "off", child |-> NoChildren, seen |-> mon.seen]
    /\ writes' = 0

\* Watch.run up to `await self._stop_event.wait()`: the event loop is taken,
\* _stop_event is created and the connector started
Watch_run ==
    /\ life.pc = "new"
    /\ scanPc = "init"
    /\ life' = [life EXCEPT !.pc = "waiting", !.ev = "clear"]
    /\ connector_start
    /\ UNCHANGED <<devices, approved, informed, clients, link, sc, nclients,
                   h, nframes, fwd, _client, reported, pending, last, writes>>
    /\ UNCHANGED <<asked, codec>>

\* Watch.stop: self._stop_event.set().  Before run() the attribute is None and
\* the call raises AttributeError.
stop ==
    /\ life.pc \notin {"returned", "raised"}
    /\ life' = IF life.ev = "none" THEN [life EXCEPT !.pc = "raised"]
                                   ELSE [life EXCEPT !.ev = "set"]
    /\ UNCHANGED <<scanPc, start_event, stop_event, devices, approved, informed,
                   clients, link, sc, nclients, h, nframes, mon, fwd, _client,
                   reported, pending, last, writes>>
    /\ UNCHANGED <<asked, codec>>

\* Watch.run resumes from _stop_event.wait() and awaits WatchConnector.stop:
\* the Scanner is told to stop and disconnect is gathered for every tracked
\* address; with none tracked the tasks are cancelled and run returns.
run_stopped ==
    LET tracked == {a \in Addr : clients[a] # 0} IN
    /\ life.pc = "waiting"
    /\ life.ev = "set"
    /\ Store(stop_scanner(Cur))
    /\ IF tracked = {}
       THEN /\ life' = [life EXCEPT !.pc = "returned"]
            /\ connector_cancel_tasks
       ELSE /\ life' = [life EXCEPT !.pc = "stopping", !.child = Gather(tracked)]
            /\ UNCHANGED <<mon, writes>>
    /\ UNCHANGED <<scanPc, informed, sc, nclients, h, nframes, fwd, _client,
                   reported, pending, last>>
    /\ UNCHANGED <<asked, codec>>

\* WatchConnector.stop: a gathered disconnect(b) starts
stop_disconnect_begin(b) ==
    LET r == disconnect_begin(Cur, b)
        ch == child_begin(life.child, r, b)
    IN
    /\ life.pc = "stopping"
    /\ life.child[b].st = "pending"
    /\ Store(r.s)
    /\ IF Gathered(ch)
       THEN /\ life' = [life EXCEPT !.pc = "returned", !.child = NoChildren]
            /\ connector_cancel_tasks
       ELSE /\ life' = [life EXCEPT !.child = ch]
            /\ UNCHANGED <<mon, writes>>
    /\ UNCHANGED <<scanPc, informed, sc, nclients, h, nframes, fwd, _client,
                   reported, pending, last>>
    /\ UNCHANGED <<asked, codec>>

\* WatchConnector.stop: a gathered disconnect(b) resumes; after the last one
\* the tasks are cancelled and Watch.run returns
stop_disconnect_end(b) ==
    LET ch == child_end(life.child, b) IN
    /\ life.pc = "stopping"
    /\ life.child[b].st = "io"
    /\ Store(disconnect_end(Cur, b, life.child[b].io))
    /\ IF Gathered(ch)
       THEN /\ life' = [life EXCEPT !.pc = "returned", !.child = NoChildren]
            /\ connector_cancel_tasks
       ELSE /\ life' = [life EXCEPT !.child = ch]
            /\ UNCHANGED <<mon, writes>>
    /\ UNCHANGED <<scanPc, informed, sc, nclients, h, nframes, fwd, _client,
                   reported, pending, last>>
    /\ UNCHANGED <<asked, codec>>

\* Watch.trigger_haptics / request_model: _write_input_characteristic creates
\* a task on the event loop; with a connected _client the task awaits
\* write_gatt_char (with no client it ends at once, on a client that is not
\* connected the write raises)
trigger_haptics ==
    /\ life.pc \in {"waiting", "stopping"}
    /\ _client # 0
    /\ link[_client] = "connected"
    /\ writes < MaxWrites
    /\ writes' = writes + 1
    /\ UNCHANGED <<scanPc, start_event, stop_event, devices, approved, informed,
                   clients, link, sc, nclients, h, nframes, mon, fwd, _client,
                   reported, pending, last, life>>
    /\ UNCHANGED <<asked, codec>>

\* write_gatt_char of a write task returns or raises: the task ends
write_returned ==
    /\ writes > 0
    /\ writes' = writes - 1
    /\ UNCHANGED <<scanPc, start_event, stop_event, devices, approved, informed,
                   clients, link, sc, nclients, h, nframes, mon, fwd, _client,
                   reported, pending, last, life>>
    /\ UNCHANGED <<asked, codec>>

\* The runs of LifeSpec keep their radio links: no link is lost, so every pass
\* of the monitor finds nothing to disconnect.
LifeNext ==
    \/ Watch_run
    \/ stop
    \/ run_stopped
    \/ \E b \in Addr : stop_disconnect_begin(b)
    \/ \E b \in Addr : stop_disconnect_end(b)
    \/ trigger_haptics
    \/ write_returned
    \/ scanner_stopped
    \/ scanner_restarted
    \/ \E d \in Addr : nclients < MaxClients /\ _detection_callback(d, TRUE)
    \/ \E c \in ClientId, outcome \in ConnectOutcome : connect_done(c, outcome)
    \/ \E c \in ClientId, ok \in BOOLEAN : write_done(c, ok)
    \/ \E c \in ClientId, outcome \in GattOutcome : notify_done(c, outcome)
    \/ \E c \in ClientId : scan_disconnected(c)
    \/ \E c \in ClientId, sig \in BOOLEAN : _on_protobuf(c, sig)
    \/ \E k \in FrameId, b \in Addr : approval_disconnect_begin(k, b)
    \/ \E k \in FrameId, b \in Addr : approval_disconnect_end(k, b)
    \/ \E k \in FrameId, outcome \in GattOutcome : approve_done(k, outcome)
    \/ \E k \in FrameId : frame_disconnected(k)
    \/ _monitor_connections

LifeSpec == Init /\ [][LifeNext]_vars

\* The runs of DeclineSpec: every peripheral declines (each notification
\* carries the disconnect signal) and no radio link is lost, so nothing is
\* approved and the scan loop never leaves its scanning state.
DeclineNext ==
    \/ run
    \/ \E d \in Addr : _detection_callback(d, TRUE)
    \/ \E c \in ClientId, outcome \in ConnectOutcome : connect_done(c, outcome)
    \/ \E c \in ClientId, ok \in BOOLEAN : write_done(c, ok)
    \/ \E c \in ClientId, outcome \in GattOutcome : notify_done(c, outcome)
    \/ \E c \in ClientId : scan_disconnected(c)
    \/ \E c \in ClientId : _on_protobuf(c, TRUE)
    \/ \E k \in FrameId : frame_disconnected(k)

DeclineSpec == Init /\ [][DeclineNext]_vars

\* The runs of ReconnectSpec: the connector with as many clients as
\* DeclineSpec and frames that accept or decline, among peripherals that keep
\* their radio links (the monitor finds nothing to disconnect and is left out).
ReconnectNext ==
    \/ run
    \/ scanner_stopped
    \/ scanner_restarted
    \/ \E d \in Addr : _detection_callback(d, TRUE)
    \/ \E c \in ClientId, outcome \in ConnectOutcome : connect_done(c, outcome)
    \/ \E c \in ClientId, ok \in BOOLEAN : write_done(c, ok)
    \/ \E c \in ClientId, outcome \in GattOutcome : notify_done(c, outcome)
    \/ \E c \in ClientId : scan_disconnected(c)
    \/ \E c \in ClientId, sig \in BOOLEAN : _on_protobuf(c, sig)
    \/ \E k \in FrameId, b \in Addr : approval_disconnect_begin(k, b)
    \/ \E k \in FrameId, b \in Addr : approval_disconnect_end(k, b)
    \/ \E k \in FrameId, outcome \in GattOutcome : approve_done(k, outcome)
    \/ \E k \in FrameId : frame_disconnected(k)

ReconnectSpec == Init /\ [][ReconnectNext]_vars

\* ---- Watch: the decoder on its own ----

\* every variable of the Connector, the Scanner and the lifecycle of the Watch
connector == <<scanPc, start_event, stop_event, devices, approved, informed,
               clients, link, sc, nclients, h, nframes, mon, fwd, _client,
               reported, pending, last, life, writes, asked>>

\* the sequences over S of at most n entries
SeqUpTo(S, n) == UNION {[1..k -> S] : k \in 0..n}

\* sensor frames: val stands for the readings, grav is the length of the
\* gravity vector
SensorFrames ==
    {[val |-> 1, grav |-> 1], [val |-> 2, grav |-> 1], [val |-> 2, grav |-> 0]}

TouchEvents ==
    {[eventType |-> t, coords |-> <<5>>] : t \in {"BEGIN", "END", "MOVE", "CANCEL"}}

\* the info of a battery report: no hand, and an app version all the same
BatteryInfo == [NoInfo EXCEPT !.batteryPercentage = 80, !.appVersion = "s"]

RightHandInfo == [NoInfo EXCEPT !.hand = RIGHT, !.batteryPercentage = 80]

\* an Update frame with these batches; i is the info sub-message, if any
Frame(s, g, t, b, ro, i, p) ==
    [sensorFrames |-> s, gestures |-> g, touchEvents |-> t, buttonEvents |-> b,
     rotaryEvents |-> ro, hasInfo |-> i # <<>>,
     info |-> IF i = <<>> THEN NoInfo ELSE i[1], pressure |-> p]

\* a Watch that is handed one Update frame
DecodeInit ==
    /\ Constructed
    /\ \E s \in SeqUpTo(SensorFrames, MaxBatch),
          g \in SeqUpTo({PINCH_TAP, CLENCH}, MaxBatch),
          t \in SeqUpTo(TouchEvents, MaxTouches),
          b \in SeqUpTo({0, 1}, 1),
          ro \in SeqUpTo({-1, 1}, MaxBatch),
          i \in SeqUpTo({NoInfo, BatteryInfo, RightHandInfo}, 1),
          p \in {0, 1013} :
            message = Frame(s, g, t, b, ro, i, p)
    /\ calls = <<>>
    /\ watch = NewWatch
    /\ ended = "none"
    /\ ndecoded = 0
    /\ args = <<>>
    /\ input_update = <<>>
    /\ tasks = <<>>
    /\ wire = <<>>
    /\ issued = 0

\* WatchConnector._on_protobuf awaits self._on_message(message), which is
\* Watch._on_protobuf: it runs without suspending
_on_message ==
    LET r == Watch_on_protobuf(Running(calls, watch), message) IN
    /\ ndecoded < 1
    /\ message # NoMessage
    /\ ndecoded' = ndecoded + 1
    /\ calls' = r.calls
    /\ watch' = r.watch
    /\ ended' = IF r.raised THEN "raised" ELSE "returned"
    /\ UNCHANGED <<message, connector, args, input_update, outbound>>

DecodeNext == _on_message

DecodeSpec == DecodeInit /\ [][DecodeNext]_vars

\* ---- Watch: the info merge on its own ----

\* the names of the string fields of an Info
StringFields == {"appVersion", "appId", "deviceName", "manufacturer", "modelInfo"}

\* an Info whose string fields in S are set
WithStrings(info, S) ==
    [info EXCEPT !.appVersion = IF "appVersion" \in S THEN "s" ELSE "",
                 !.appId = IF "appId" \in S THEN "s" ELSE "",
                 !.deviceName = IF "deviceName" \in S THEN "s" ELSE "",
                 !.manufacturer = IF "manufacturer" \in S THEN "s" ELSE "",
                 !.modelInfo = IF "modelInfo" \in S THEN "s" ELSE ""]

\* the Info sub-messages received: every field set or not, the string fields
\* none, one at a time, or all
Infos ==
    {WithStrings([hand |-> hd, batteryPercentage |-> bp,
                  touchScreenResolution |-> res, hapticsAvailable |-> ha,
                  appVersion |-> "", appId |-> "", deviceName |-> "",
                  manufacturer |-> "", modelInfo |-> "",
                  availableModels |-> av, activeModel |-> ac], S) :
        hd \in {NONE, RIGHT, LEFT}, bp \in {0, 80},
        res \in {[x |-> 0, y |-> 0], [x |-> 3, y |-> 4]}, ha \in BOOLEAN,
        av \in {<<>>, <<{PINCH_TAP}>>}, ac \in {{}, {PINCH_TAP}},
        S \in {{}, StringFields} \cup {{f} : f \in StringFields}}

\* An Update with this info is received and Watch._proto_on_info merges it
\* (Watch._fetch_info after an approval; Watch._on_protobuf calls the same
\* merge for a frame with info).
info_received(info) ==
    LET r == _proto_on_info(Running(calls, watch), info) IN
    /\ ndecoded < MaxUpdates
    /\ ndecoded' = ndecoded + 1
    /\ message' = [NoMessage EXCEPT !.hasInfo = TRUE, !.info = info]
    /\ calls' = r.calls
    /\ watch' = r.watch
    /\ ended' = "returned"
    /\ UNCHANGED <<connector, args, input_update, outbound>>

InfoNext == \E info \in Infos : info_received(info)

InfoSpec == Init /\ [][InfoNext]_vars

\* ---- Watch: the haptics encoder on its own ----

\* intensities and durations handed to trigger_haptics, in tenths
Intensities == {Num(-2), Num(0), Num(5), Num(10), Num(15), Nan, Inf, NegInf}

Durations ==
    {Num(-100), Num(-5), Num(0), Num(25005), Num(50000), Num(90000),
     Nan, Inf, NegInf}

\* a Watch on which trigger_haptics is about to be called
HapticsInit ==
    /\ Constructed
    /\ message = NoMessage
    /\ calls = <<>>
    /\ watch = NewWatch
    /\ ended = "none"
    /\ ndecoded = 0
    /\ args \in [intensity : Intensities, length : Durations]
    /\ input_update = <<>>
    /\ tasks = <<>>
    /\ wire = <<>>
    /\ issued = 0

\* Watch.trigger_haptics up to the InputUpdate it builds
create_haptics_update ==
    LET u == _create_haptics_update(args.intensity, args.length) IN
    /\ ended = "none"
    /\ args # <<>>
    /\ ended' = IF u.raised THEN "raised" ELSE "returned"
    /\ input_update' =
           IF u.raised THEN <<>> ELSE [intensity |-> u.intensity, length |-> u.length]
    /\ UNCHANGED <<connector, message, calls, watch, ndecoded, args, outbound>>

HapticsNext == create_haptics_update

HapticsSpec == HapticsInit /\ [][HapticsNext]_vars

\* ---- Watch: outbound writes ----

\* the sequence s without its i-th element
Without(s, i) == [j \in 1..(Len(s) - 1) |-> IF j < i THEN s[j] ELSE s[j + 1]]

\* the tasks that have not started yet
Created == {i \in 1..Len(tasks) : tasks[i].pc = "created"}

\* the tasks suspended in client.write_gatt_char
InFlight == {i \in 1..Len(tasks) : tasks[i].pc = "io"}

\* Watch.trigger_haptics / Watch.request_model: the InputUpdate is built and
\* _write_input_characteristic creates a task for it with the current _client,
\* unless the Watch has no event loop yet (before run).  appr notes whether
\* the address of that client was approved when the call was made.
_write_input_characteristic ==
    /\ issued < MaxTasks
    /\ issued' = issued + 1
    /\ tasks' = IF life.pc = "new"
                THEN tasks
                ELSE Append(tasks, [n |-> issued + 1, client |-> _client,
                                    pc |-> "created",
                                    appr |-> /\ _client # 0
                                             /\ sc[_client].addr \in approved])
    /\ UNCHANGED <<connector, wire>>
    /\ UNCHANGED <<message, calls, watch, ended, ndecoded, args, input_update>>

\* The event loop starts the oldest task that has not run yet:
\* _async_write_input_characteristic ends at once without a client, else it
\* calls client.write_gatt_char, which raises on a client that is not
\* connected (up is FALSE) and else suspends the task until the write is
\* answered
_async_write_input_characteristic ==
    /\ Created # {}
    /\ LET i == CHOOSE i \in Created : \A j \in Created : i <= j
           t == tasks[i]
           up == link[t.client] = "connected"
       IN IF t.client = 0
          THEN /\ tasks' = Without(tasks, i)
               /\ wire' = wire
          ELSE /\ tasks' = IF up THEN [tasks EXCEPT ![i].pc = "io"]
                                 ELSE Without(tasks, i)
               /\ wire' = Append(wire, [n |-> t.n, client |-> t.client,
                                        appr |-> t.appr, up |-> up])
    /\ UNCHANGED <<connector, issued>>
    /\ UNCHANGED <<message, calls, watch, ended, ndecoded, args, input_update>>

\* write_gatt_char of the i-th task returns or raises: the task ends
write_gatt_char_done(i) ==
    /\ i \in InFlight
    /\ tasks' = Without(tasks, i)
    /\ UNCHANGED <<connector, wire, issued>>
    /\ UNCHANGED <<message, calls, watch, ended, ndecoded, args, input_update>>

\* The runs of WriteSpec: a Watch that is run and never stopped, among
\* peripherals that keep their radio links, and the application calling
\* trigger_haptics and request_model at any time.
WriteNext ==
    \/ Watch_run
    \/ scanner_stopped
    \/ scanner_restarted
    \/ \E d \in Addr : nclients < MaxClients /\ _detection_callback(d, TRUE)
    \/ \E c \in ClientId, outcome \in ConnectOutcome : connect_done(c, outcome)
    \/ \E c \in ClientId, ok \in BOOLEAN : write_done(c, ok)
    \/ \E c \in ClientId, outcome \in GattOutcome : notify_done(c, outcome)
    \/ \E c \in ClientId : scan_disconnected(c)
    \/ \E c \in ClientId, sig \in BOOLEAN : _on_protobuf(c, sig)
    \/ \E k \in FrameId, b \in Addr : approval_disconnect_begin(k, b)
    \/ \E k \in FrameId, b \in Addr : approval_disconnect_end(k, b)
    \/ \E k \in FrameId, outcome \in GattOutcome : approve_done(k, outcome)
    \/ \E k \in FrameId : frame_disconnected(k)
    \/ _write_input_characteristic
    \/ _async_write_input_characteristic
    \/ \E i \in 1..MaxTasks : write_gatt_char_done(i)

WriteSpec == Init /\ [][WriteNext]_vars

\* ---- Watch: notifications of a custom characteristic ----

\* the characters of the format strings the consumer may register
FormatChars == {"<", ">", "b", "h", "Z"}

\* the values of a payload byte
Bytes == {1, 255}

\* a Watch whose custom characteristic is about to notify: custom_data maps
\* the characteristic to a format string, or has no entry for it
CustomInit ==
    /\ Constructed
    /\ message = NoMessage
    /\ calls = <<>>
    /\ watch = NewWatch
    /\ ended = "none"
    /\ ndecoded = 0
    /\ \E registered \in BOOLEAN :
       \E f \in IF registered THEN SeqUpTo(FormatChars, MaxFormat) ELSE {<<>>} :
       \E d \in SeqUpTo(Bytes, MaxPayload) :
           args = [registered |-> registered, format_string |-> f, data |-> d]
    /\ input_update = <<>>
    /\ tasks = <<>>
    /\ wire = <<>>
    /\ issued = 0

\* Watch._on_custom_data(characteristic, data)
_on_custom_data ==
    LET r == unpack_chained(args.format_string, args.data) IN
    /\ ended = "none"
    /\ IF ~args.registered
       THEN /\ ended' = "returned"
            /\ calls' = calls
       ELSE IF r.raised
       THEN /\ ended' = "raised"
            /\ calls' = calls
       ELSE /\ ended' = "returned"
            /\ calls' = Append(calls, Call("on_custom_data", r.content))
    /\ UNCHANGED <<connector, message, watch, ndecoded, args, input_update, outbound>>

CustomNext == _on_custom_data

CustomSpec == CustomInit /\ [][CustomNext]_vars

\* ---- vocabulary of the properties ----
AddrOf(c) == sc[c].addr

Tracked(c) == \E a \in Addr : clients[a] = c

\* a frame was passed to on_message
Forwarded(k) == \E i \in 1..Len(fwd) : fwd[i] = k

\* the handler of frame k is suspended
InProgress(k) == h[k].pc \in {"gather", "approve", "disc"}

Finished(k) == h[k].pc \in {"done", "dead"}

\* address a is approved, its approval handling has completed without error
\* and its client is tracked and connected
Settled(a) ==
    /\ a \in approved
    /\ clients[a] # 0
    /\ link[clients[a]] = "connected"
    /\ \E k \in FrameId : /\ h[k].cli = clients[a]
                          /\ h[k].client = clients[a]
                          /\ h[k].pc = "done"
                          /\ h[k].res = "ok"

\* C1: the approved-address set never holds more than one address.
C1_AtMostOneApproved == Cardinality(approved) <= 1

\* C2: two devices were connected and awaiting approval and each sent an
\* accepting first notification; no link was lost and no transport fault
\* occurred.  When both handlers have finished, exactly one of the two is
\* approved with a tracked, connected client, and the client of the other one
\* has been disconnected and is no longer tracked.
RacePair(i, j) ==
    /\ i # j
    /\ h[i].client # 0 /\ h[j].client # 0
    /\ AddrOf(h[i].client) # AddrOf(h[j].client)
    /\ ~h[i].sig /\ ~h[j].sig
    /\ Finished(i) /\ Finished(j)
    /\ h[i].res # "fault" /\ h[j].res # "fault"
    /\ \A c \in ClientId : link[c] # "dropped"

Won(w, l) ==
    /\ approved = {AddrOf(w)}
    /\ clients[AddrOf(w)] = w
    /\ link[w] = "connected"
    /\ link[l] = "closed"
    /\ ~Tracked(l)

C2_ExactlyOneWins ==
    \A i, j \in FrameId :
        RacePair(i, j) =>
            \/ Won(h[i].client, h[j].client)
            \/ Won(h[j].client, h[i].client)

\* C3: while A is approved and settled, the handler of an accepting frame of
\* another device B never removes A from the approved set nor its client from
\* the tracked set, and when that handler has finished B is not approved and
\* has no tracked client.
C3_FirstApprovedWins ==
    [][\A a \in Addr, k \in FrameId :
          ( /\ Settled(a)
            /\ h'[k] # h[k]
            /\ ~h'[k].sig
            /\ AddrOf(h'[k].client) # a )
          => /\ a \in approved'
             /\ clients'[a] = clients[a]
             /\ link'[clients[a]] = "connected"
             /\ Finished(k)' =>
                   /\ AddrOf(h'[k].client) \notin approved'
                   /\ clients'[AddrOf(h'[k].client)] = 0
      ]_vars

\* C4: once the approval handling of A has completed and while A stays
\* approved, no other address has a connected client in the tracked set.
C4_OthersDisconnected ==
    \A a \in Addr :
        Settled(a) =>
            \A b \in Addr \ {a} :
                clients[b] = 0 \/ link[clients[b]] # "connected"

\* C5: once the approval handling of a device has completed and while it
\* stays approved, the Scanner is paused: unless the stop request is still
\* pending in the scan loop, the loop is not scanning, so no device is reported.
C5_ScannerPaused ==
    ((\E a \in Addr : Settled(a)) /\ ~stop_event) => scanPc # "scanning"

\* the scan loop is scanning and no stop request is pending
Scanning == scanPc = "scanning" /\ ~stop_event

\* C6: whenever the approved set is empty during the run, scanning is resumed:
\* eventually the scan loop is scanning again (or a device is approved again),
\* so the system does not stay with scanning paused and nothing approved.
C6_ScanningResumes ==
    (approved = {} /\ scanPc # "init") ~> (Scanning \/ approved # {})

\* witness of C6: a session was approved and settled, it has ended, the
\* approved set is empty and the scan loop is scanning again
C6_Witness ==
    /\ approved = {}
    /\ Scanning
    /\ \E k \in FrameId : h[k].res = "ok" /\ ~Tracked(h[k].cli)

\* C7: whenever a session ends with its transport closed (connect failure,
\* handshake failure, decline, lost race), the address is not in the Scanner's
\* dedup set afterwards.
C7_ForgottenOnDisconnect ==
    [][\A c \in ClientId :
          (link[c] # "closed" /\ link'[c] = "closed")
          => AddrOf(c) \notin devices'
      ]_vars

\* C8: at the end of a monitor pass no client that reported not connected when
\* the pass began is tracked any more, and its address is not approved on its
\* behalf; every disconnect of the pass leaves its address out of the approved
\* set and out of the Scanner's dedup set and, with nothing approved, with the
\* start request issued.
C8_DropCleanedUp ==
    [][ /\ mon'.pc = "sleep" =>
              \A c \in mon'.seen :
                  /\ ~Tracked(c)'
                  /\ AddrOf(c) \in approved' =>
                        \E k \in FrameId : /\ h'[k].client \notin {0, c}
                                           /\ AddrOf(h'[k].client) = AddrOf(c)
                                           /\ ~h'[k].sig
        /\ \A b \in Addr :
              ( /\ mon.child[b].st \in {"pending", "io"}
                /\ mon'.child[b].st \in {"done", "none"} )
              => /\ b \notin approved'
                 /\ b \notin devices'
                 /\ approved' = {} => start_event'
      ]_vars

\* witness of C8: a session that was approved and settled lost its link and a
\* monitor pass that saw it has ended
C8_Witness ==
    /\ mon.pc = "sleep"
    /\ \E c \in mon.seen :
          /\ link[c] = "dropped"
          /\ \E k \in FrameId : h[k].cli = c /\ h[k].res = "ok"

\* C9: frames of one session are passed to on_message in arrival order, and a
\* later frame is not passed on while the handler of an earlier accepting
\* frame of the same session is still suspended.
C9_InArrivalOrder ==
    /\ \A p, q \in 1..Len(fwd) :
          (p < q /\ h[fwd[p]].client = h[fwd[q]].client) => fwd[p] < fwd[q]
    /\ \A i, j \in FrameId :
          ( /\ i < j
            /\ h[i].client # 0
            /\ h[i].client = h[j].client
            /\ ~h[i].sig
            /\ Forwarded(j) )
          => ~InProgress(i)

\* C10: when a frame is passed to on_message, the sending device is in the
\* approved set and has a tracked client.
C10_ForwardOnlyApproved ==
    [][\A k \in FrameId :
          (Forwarded(k)' /\ ~Forwarded(k))
          => /\ AddrOf(h'[k].client) \in approved'
             /\ clients'[AddrOf(h'[k].client)] # 0
      ]_vars

\* frame k is the first notification of its session
FirstFrame(k) ==
    /\ h[k].client # 0
    /\ \A j \in FrameId : (j < k) => h[j].client # h[k].client

\* a disconnect of client c has been started and has not yet returned
Disconnecting(c) ==
    \/ \E e \in ClientId : sc[e].pc = "disc" /\ sc[e].io = c
    \/ \E k \in FrameId : \/ h[k].pc = "disc" /\ h[k].io = c
                          \/ \E b \in Addr : h[k].child[b].io = c
    \/ \E b \in Addr : mon.child[b].io = c

\* C11: on_connect has been called for an approval only if the read of the
\* info characteristic made for that approval has returned and its info was
\* merged.
C11_InfoBeforeOnConnect ==
    \A k \in FrameId : h[k].res = "ok" => h[k].info

\* witness of C11: an approval has read the info and called on_connect while
\* another approval is still waiting for its read
C11_Witness ==
    \E i, j \in FrameId :
        /\ h[i].res = "ok" /\ h[i].info
        /\ h[j].pc = "approve" /\ ~h[j].info

\* C14: a connect that fails, by timeout or by another error, ends the attempt
\* without an exception leaving _on_scan_result; when the handler has ended
\* the client is not tracked and the address is not in the dedup set.
C14_ConnectFailureAbsorbed ==
    [][\A c \in ClientId :
          ( /\ sc[c].pc = "connect"
            /\ sc'[c].pc # "connect"
            /\ link'[c] # "connected" )
          => /\ sc'[c].pc \in {"disc", "done"}
             /\ ~Tracked(c)'
             /\ sc'[c].pc = "done" => AddrOf(c) \notin devices'
      ]_vars

\* C15: a handshake whose ClientInfo write or whose subscribe fails is
\* abandoned: the handler goes into disconnect, the client is no longer
\* tracked, and when the handler has ended the address is not in the dedup
\* set and the session is not subscribed.
C15_HandshakeFailureAbandons ==
    [][\A c \in ClientId :
          /\ ( /\ sc[c].pc = "write"
               /\ sc'[c].wr = "failed" )
             => /\ sc'[c].pc \in {"disc", "done"}
                /\ ~Tracked(c)'
          /\ ( /\ sc[c].pc = "notify"
               /\ sc'[c].pc # "notify"
               /\ ~sc'[c].sub )
             => /\ sc'[c].pc \in {"disc", "done"}
                /\ ~Tracked(c)'
                /\ sc'[c].pc = "done" => AddrOf(c) \notin devices'
      ]_vars

\* C16: a handshake that begins for an address that is marked informed makes
\* no ClientInfo write: the handler goes from connect straight to start_notify.
C16_InformedNotRewritten ==
    [][\A c \in ClientId :
          ( /\ sc[c].pc = "connect"
            /\ sc'[c].pc \in {"write", "notify"} )
          => (AddrOf(c) \in informed <=> sc'[c].pc = "notify")
      ]_vars

\* witness of C16: a second session of an informed address is waiting for its
\* subscribe and has made no write
C16_Witness ==
    \E c \in ClientId :
        /\ sc[c].pc = "notify"
        /\ sc[c].wr = "none"
        /\ AddrOf(c) \in informed

\* C17: when the handler of a session's first notification, carrying the
\* disconnect signal, has ended, the session's client is not tracked, its
\* transport is disconnected (or a disconnect of it is under way), its address
\* is not approved, on_connect was not called for the client, the frame was
\* not passed to on_message, and with nothing approved the start request of
\* the scanner has been issued.
C17_DeclinedOnSignal ==
    [][\A k \in FrameId, c \in ClientId :
          ( /\ h'[k].sig
            /\ h'[k].client = c
            /\ h[k].pc # "done"
            /\ h'[k].pc = "done"
            /\ FirstFrame(k)' )
          => /\ ~Tracked(c)'
             /\ link'[c] # "connected" \/ Disconnecting(c)'
             /\ AddrOf(c) \notin approved'
             /\ \A j \in FrameId : h'[j].cli = c => h'[j].res # "ok"
             /\ ~Forwarded(k)'
             /\ approved' = {} => start_event'
      ]_vars

\* device d is reported in this step
Reported(d) == pending'[d] > pending[d]

C19_PauseKeepsDedup ==
    [][(scanPc = "stopped" /\ scanPc' = "scanning")
          => reported' \subseteq devices'
      ]_vars

\* C19 as amended: a stop request leaves the dedup set as it is, a start
\* request empties it.
C19_StartResetsDedup ==
    [][ /\ (~stop_event /\ stop_event') => devices' = devices
        /\ (~start_event /\ start_event') => devices' = {}
      ]_vars

\* witness of C19 as amended: the scan loop is paused, the start request has
\* been issued and has emptied the dedup set, although a device had been
\* reported and was not forgotten
C19_Witness ==
    /\ scanPc = "stopped"
    /\ start_event
    /\ devices = {}
    /\ \E d \in reported : last[d] = "reported"

\* C20: a device dropped by the name filter is not in the dedup set afterwards
\* (so that a later matching advertisement of it is reported), and a device
\* that passed the checks and was reported is.
C20_FilteredNotRemembered ==
    [][\A d \in Addr :
          /\ last'[d] = "filtered" => d \notin devices'
          /\ Reported(d) => d \in devices'
      ]_vars

\* C12: stop() never raises, whenever it is called, and once run() has
\* returned the stop has been taken: _stop_event is set.
C12_StopSafeAnyTime ==
    /\ life.pc # "raised"
    /\ life.pc = "returned" => life.ev = "set"

\* a task of the system is still at work
TaskAtWork ==
    \/ \E c \in ClientId : sc[c].pc \in {"connect", "write", "notify", "disc"}
    \/ \E k \in FrameId : InProgress(k)
    \/ mon.pc # "off"
    \/ writes > 0

\* C13: once the system has been stopped (run() has returned), the scan loop
\* is not scanning (unless the stop request is still pending in it), no
\* tracked client is connected, the monitor is cancelled, no write is pending
\* and no task of the system is at work.
C13_NothingRunsAfterStop ==
    life.pc = "returned"
        => /\ ~stop_event => scanPc # "scanning"
           /\ \A a \in Addr : clients[a] = 0 \/ link[clients[a]] # "connected"
           /\ ~TaskAtWork

\* ---- the decoder ----

\* the arguments of the calls of callback cb made so far, in call order
ArgsOf(cb) ==
    LET sel == SelectSeq(calls, LAMBDA c : c.cb = cb)
    IN  [i \in 1..Len(sel) |-> sel[i].arg]

TouchCallbacks == {"on_touch_down", "on_touch_up", "on_touch_move", "on_touch_cancel"}

\* the place of a callback in the decode order of a frame
Rank(cb) ==
    CASE cb = "on_gesture_probability" -> 1
      [] cb = "on_sensors" -> 2
      [] cb = "on_arm_direction_change" -> 3
      [] cb \in {"on_tap", "on_gesture"} -> 4
      [] cb \in TouchCallbacks -> 5
      [] cb = "on_back_button" -> 6
      [] cb = "on_rotary" -> 7
      [] cb = "on_info_update" -> 8
      [] cb = "on_pressure" -> 9

\* p is the beginning of s
Prefix(p, s) == /\ Len(p) <= Len(s)
                /\ \A i \in 1..Len(p) : p[i] = s[i]

\* the touch callbacks made so far, by name
TouchCalls ==
    LET sel == SelectSeq(calls, LAMBDA c : c.cb \in TouchCallbacks)
    IN  [i \in 1..Len(sel) |-> sel[i].cb]

\* C21: the callbacks of one decoded frame fire group by group in the order
\* gesture probability, sensors, arm direction, gestures (a tap right before
\* its gesture), touch, back button, rotary, info update, pressure, and within
\* a group in the order of the entries on the wire.
C21_CallbackOrder ==
    ended # "none" =>
        /\ \A i, j \in 1..Len(calls) :
               i < j => Rank(calls[i].cb) <= Rank(calls[j].cb)
        /\ Prefix(ArgsOf("on_gesture"),
                  IF message.gestures = <<>> THEN <<NONE>> ELSE message.gestures)
        /\ \A i \in 1..Len(calls) :
               calls[i].cb = "on_tap" =>
                   /\ i < Len(calls)
                   /\ calls[i + 1] = Call("on_gesture", PINCH_TAP)
        /\ Prefix(TouchCalls,
                  [i \in 1..Len(message.touchEvents) |->
                      touch_callback(message.touchEvents[i].eventType)])
        /\ Prefix(ArgsOf("on_rotary"),
                  [i \in 1..Len(message.rotaryEvents) |->
                      0 - message.rotaryEvents[i]])

\* witness of C21: a frame was decoded whose callbacks cover all nine groups,
\* with two gestures, two touch events and two rotary steps that differ
C21_Witness ==
    /\ ended = "returned"
    /\ \A n \in 1..9 : \E i \in 1..Len(calls) : Rank(calls[i].cb) = n
    /\ Len(message.gestures) >= 2
    /\ message.gestures[1] # message.gestures[2]
    /\ Len(message.touchEvents) >= 2
    /\ message.touchEvents[1] # message.touchEvents[2]
    /\ Len(message.rotaryEvents) >= 2
    /\ message.rotaryEvents[1] # message.rotaryEvents[2]

\* C22: a frame with a sensor batch of n >= 1 frames gives exactly one
\* on_sensors call, made with the values of the last frame of the batch, and
\* at most one arm direction derived from that frame.
C22_LastSensorFrameOnly ==
    (ended # "none" /\ message.sensorFrames # <<>>) =>
        LET n == Len(message.sensorFrames) IN
        /\ ArgsOf("on_sensors") = <<message.sensorFrames[n].val>>
        /\ Prefix(ArgsOf("on_arm_direction_change"),
                  <<message.sensorFrames[n].val>>)

\* witness of C22: a batch of two frames with different values was decoded
\* and on_sensors got the second
C22_Witness ==
    /\ ended = "returned"
    /\ Len(message.sensorFrames) >= 2
    /\ message.sensorFrames[1].val # message.sensorFrames[Len(message.sensorFrames)].val
    /\ ArgsOf("on_sensors") = <<message.sensorFrames[Len(message.sensorFrames)].val>>

\* C23: a decoded frame with an empty gesture batch gives on_gesture(NONE)
\* once and no on_tap; with a non-empty batch, on_gesture once per entry with
\* the entry's type and on_tap once per entry of type PINCH_TAP.
C23_GestureEvents ==
    ended # "none" =>
        IF message.gestures = <<>>
        THEN /\ ArgsOf("on_gesture") = <<NONE>>
             /\ ArgsOf("on_tap") = <<>>
        ELSE /\ ArgsOf("on_gesture") = message.gestures
             /\ Len(ArgsOf("on_tap")) =
                    Cardinality({i \in 1..Len(message.gestures) :
                                    message.gestures[i] = PINCH_TAP})

\* C24: for a decoded frame on_rotary is called once per rotary entry, in
\* wire order, with the negated step.
C24_RotaryNegated ==
    ended # "none" =>
        ArgsOf("on_rotary") =
            [i \in 1..Len(message.rotaryEvents) |-> 0 - message.rotaryEvents[i]]

\* C25: every Update with an info sub-message that has been received has given
\* exactly one on_info_update (and one without gives none).
C25_InfoUpdateFiresOnce ==
    Len(ArgsOf("on_info_update")) =
        IF message.hasInfo THEN ndecoded ELSE 0

\* the Info just merged in this step
Merged == message'.info

\* C26: an info update leaves every device property whose field is absent
\* from it (0, false, empty, or an unset sub-message) as it was.
C26_AbsentFieldsKept ==
    [][ /\ Merged.batteryPercentage = 0 =>
               watch'.battery_percentage = watch.battery_percentage
        /\ Merged.touchScreenResolution = NoInfo.touchScreenResolution =>
               watch'.screen_resolution = watch.screen_resolution
        /\ Merged.hapticsAvailable = FALSE =>
               watch'.haptics_available = watch.haptics_available
        /\ Merged.appId = "" => watch'.app_id = watch.app_id
        /\ Merged.appVersion = "" => watch'.app_version = watch.app_version
        /\ Merged.deviceName = "" => watch'.device_name = watch.device_name
        /\ Merged.manufacturer = "" => watch'.manufacturer = watch.manufacturer
        /\ Merged.modelInfo = "" => watch'.model_info = watch.model_info
        /\ Merged.activeModel = {} => watch'.active_model = watch.active_model
        /\ Merged.availableModels = <<>> =>
               watch'.available_models = watch.available_models
      ]_vars

\* C27: an info update whose hand is NONE changes the battery percentage at
\* most, whatever else it carries.
C27_BatteryOnlyUpdate ==
    [][ Merged.hand = NONE =>
            \E b \in {watch.battery_percentage, Merged.batteryPercentage} :
                watch' = [watch EXCEPT !.battery_percentage = b]
      ]_vars

\* witness of C27: after an update that set the properties, an update without
\* a hand but with a battery level, a resolution, strings and models was
\* merged: only the battery level is the update's
C27_Witness ==
    /\ ndecoded = 2
    /\ message.info.hand = NONE
    /\ message.info.batteryPercentage # 0
    /\ message.info.touchScreenResolution # NoInfo.touchScreenResolution
    /\ message.info.appVersion # ""
    /\ message.info.activeModel # {}
    /\ watch.hand # NONE
    /\ watch.battery_percentage = message.info.batteryPercentage
    /\ watch.screen_resolution #
           <<message.info.touchScreenResolution.x, message.info.touchScreenResolution.y>>
    /\ watch.app_version # message.info.appVersion
    /\ watch.active_model # message.info.activeModel

\* ---- the haptics encoder ----

\* x lies in [lo, hi]
Within(x, lo, hi) == x.k = "num" /\ lo <= x.v /\ x.v <= hi

\* C28: whatever intensity and duration trigger_haptics is called with, the
\* call is not rejected and the HapticEvent built has an intensity in [0, 1]
\* and a whole duration in [0, 5000] ms: the value given when that is in the
\* range (its fraction cut off for the duration), else the nearer end of the
\* range.
C28_HapticsClamped ==
    ended # "none" =>
        /\ ended = "returned"
        /\ Within(input_update.intensity, 0, 10)
        /\ Within(input_update.length, 0, 50000)
        /\ input_update.length.v % 10 = 0
        /\ Within(args.intensity, 0, 10) =>
               input_update.intensity = args.intensity
        /\ Less(args.intensity, Num(0)) => input_update.intensity = Num(0)
        /\ Less(Num(10), args.intensity) => input_update.intensity = Num(10)
        /\ Within(args.length, 0, 50000) =>
               /\ input_update.length.v <= args.length.v
               /\ args.length.v - input_update.length.v < 10
        /\ Less(args.length, Num(0)) => input_update.length = Num(0)
        /\ Less(Num(50000), args.length) => input_update.length = Num(50000)

\* ---- outbound writes ----

\* C29: the outbound writes of a session are serialized: at no instant is
\* more than one write to the control characteristic in flight, and the
\* writes reach the transport in the order of the trigger_haptics and
\* request_model calls that made them.
C29_WritesSerialized ==
    /\ Cardinality(InFlight) <= 1
    /\ \A i, j \in 1..Len(wire) : i < j => wire[i].n < wire[j].n

\* ---- custom characteristics ----

\* the format string cannot be read as a descriptor
Malformed(format_string) ==
    \/ format_string = <<>>
    \/ \E i \in 1..Len(format_string) :
           format_string[i] \notin endianness_tokens \union StructCodes

\* the total byte width of a well-formed descriptor
TotalWidth(format_string) ==
    LET fmts == format_strings(format_description(format_string)) IN
    accumulate([k \in 1..Len(fmts) |-> calcsize(fmts[k])], Len(fmts))

\* C30: a notification of a registered custom characteristic whose descriptor
\* is malformed, or whose payload is shorter or longer than the total byte
\* width of the descriptor, is dropped: on_custom_data is not invoked for it
\* and the device properties stay as they were.
C30_MismatchDropped ==
    (/\ ended # "none"
     /\ args.registered
     /\ \/ Malformed(args.format_string)
        \/ Len(args.data) # TotalWidth(args.format_string))
        => /\ calls = <<>>
           /\ watch = NewWatch

\* ---- sessions of a device ----

\* the transport connection of client c is being made or is up
Live(c) == link[c] \in {"connecting", "connected"}

\* C31: there is at most one session per device at any time: a device that is
\* reported again while its session is connecting, handshaking or awaiting
\* approval gets no second transport connection.
C31_OneSessionPerDevice ==
    \A c1, c2 \in ClientId :
        (c1 # c2 /\ AddrOf(c1) # 0 /\ AddrOf(c1) = AddrOf(c2))
            => ~(Live(c1) /\ Live(c2))

\* ---- requests to the Scanner ----

\* C32: while the latest request made to the Scanner is a stop, no device is
\* reported, whether or not a start request was made before that stop.
\* (Reports made while the stop request is still set, before the scan loop has
\* taken it, are left aside: the property is about the loop scanning again
\* after the stop.)
C32_StoppedUntilStart ==
    [][(asked = "stop" /\ asked' = "stop" /\ ~stop_event)
          => \A d \in Addr : ~Reported(d)
      ]_vars

\* ---- concurrent teardown ----

\* the calls of client.disconnect() on client c that have not returned
DisconnectCalls(c) ==
    Cardinality({e \in ClientId : sc[e].pc = "disc" /\ sc[e].io = c})
    + Cardinality({k \in FrameId : h[k].pc = "disc" /\ h[k].io = c})
    + Cardinality({x \in FrameId \X Addr : /\ h[x[1]].child[x[2]].st = "io"
                                           /\ h[x[1]].child[x[2]].io = c})
    + Cardinality({b \in Addr : mon.child[b].st = "io" /\ mon.child[b].io = c})

\* a disconnect(b) gathered by the monitor or by an approval runs and finds
\* no client to disconnect
FoundNoClient(b) ==
    \/ mon.child[b].st = "pending" /\ mon'.child[b].st \in {"done", "none"}
    \/ \E k \in FrameId : /\ h[k].child[b].st = "pending"
                          /\ h'[k].child[b].st \in {"done", "none"}

\* C33: client.disconnect() is called at most once for a client, however many
\* times disconnect is invoked for its address: it is called only on a client
\* that is tracked and is untracked by that call, and a client is tracked only
\* once, when its connect returns.  A disconnect that finds the teardown of
\* its address under way or done calls no transport disconnect, and no
\* disconnect changes the tracked client of another address.
C33_DisconnectIdempotent ==
    [][ /\ \A c \in ClientId :
              /\ DisconnectCalls(c)' > DisconnectCalls(c)
                    => /\ Tracked(c) /\ ~Tracked(c)'
                       /\ DisconnectCalls(c) = 0
                       /\ DisconnectCalls(c)' = 1
              /\ (~Tracked(c) /\ Tracked(c)') => sc[c].pc = "connect"
        /\ \A b \in Addr :
              FoundNoClient(b)
                  => /\ clients' = clients
                     /\ \A c \in ClientId : DisconnectCalls(c)' <= DisconnectCalls(c)
        /\ \A a, b \in Addr :
              (a # b /\ clients[a] # 0 /\ clients'[a] = 0)
                  => clients'[b] = clients[b]
      ]_vars

\* witness of C33: the monitor is disconnecting the client of a device whose
\* link was lost, and meanwhile the disconnect that the approval of another
\* device gathered for the same address has run and found no client
C33_Witness ==
    \E b \in Addr, k \in FrameId :
        /\ mon.pc = "gather"
        /\ mon.child[b].st = "io"
        /\ link[mon.child[b].io] = "dropped"
        /\ clients[b] = 0
        /\ h[k].pc = "approve"
        /\ AddrOf(h[k].client) # b
        /\ AddrOf(h[k].client) \in devices
        /\ b \notin devices

\* ---- the informed set ----

\* C34: an address enters the informed set only when a ClientInfo write to it
\* has succeeded; a write that failed leaves the address out of the set.
C34_InformedOnlyAfterSuccess ==
    [][\A a \in Addr :
          (a \notin informed /\ a \in informed')
              => \E c \in ClientId : /\ AddrOf(c) = a
                                     /\ sc[c].pc = "write"
                                     /\ sc'[c].wr = "ok"
      ]_vars

\* ---- chained unpacking ----

\* the format descriptor with its first byte-order marker: native ("@") when
\* the format string does not begin with one
Descriptor(f) == IF f[1] \in endianness_tokens THEN f ELSE <<"@">> \o f

\* the positions of the byte-order markers of a descriptor: its segments
Markers(d) == {q \in 1..Len(d) : d[q] \in endianness_tokens}

\* the segment that begins at marker q: up to the next marker
SegmentAt(d, q) ==
    LET later == {m \in Markers(d) : m > q}
        next == CHOOSE m \in later : \A n \in later : m <= n
    IN  SubSeq(d, q, IF later = {} THEN Len(d) ELSE next - 1)

\* w1 + ... + w(i-1): the byte widths of the segments that begin before q
RECURSIVE WidthOf(_, _)
WidthOf(d, ms) ==
    IF ms = {}
    THEN 0
    ELSE LET m == CHOOSE x \in ms : TRUE IN
         calcsize(SegmentAt(d, m)) + WidthOf(d, ms \ {m})

WidthBefore(d, q) == WidthOf(d, {m \in Markers(d) : m < q})

\* the values of the segments that begin at the markers in ms, each unpacked
\* from its own byte range with its own byte order, in segment order
RECURSIVE ValuesFrom(_, _, _)
ValuesFrom(d, data, ms) ==
    IF ms = {}
    THEN <<>>
    ELSE LET q == CHOOSE x \in ms : \A y \in ms : x <= y
             seg == SegmentAt(d, q)
             lo == WidthBefore(d, q)
         IN  unpack(seg, SubSeq(data, lo + 1, lo + calcsize(seg)))
                 \o ValuesFrom(d, data, ms \ {q})

\* C35: for a well-formed descriptor with segments of byte widths w1..wk and a
\* payload of w1 + ... + wk bytes, unpack_chained returns the values of
\* segment i unpacked from the bytes [w1 + ... + w(i-1), w1 + ... + wi) with
\* the byte order of that segment, for all segments in order; the first
\* segment of a format string without a leading marker is in native order.
C35_ChainedUnpack ==
    LET f == args.format_string
        d == Descriptor(f)
    IN
    (/\ ended # "none"
     /\ args.registered
     /\ ~Malformed(f)
     /\ Len(args.data) = WidthOf(d, Markers(d)))
        => /\ ended = "returned"
           /\ calls = <<Call("on_custom_data", ValuesFrom(d, args.data, Markers(d)))>>

\* witness of C35: a native 16-bit value followed by a big-endian one, each
\* read from its own two bytes
C35_Witness ==
    /\ ended = "returned"
    /\ args.format_string = <<"h", ">", "h">>
    /\ args.data = <<1, 255, 1, 255>>
    /\ calls = <<Call("on_custom_data", <<-255, 511>>)>>

\* ---- callbacks and on_connect ----

\* on_connect has been called for the session of client c
Connected(c) == \E j \in FrameId : h[j].client = c /\ h[j].res = "ok"

\* C36: a frame of a session is decoded (passed to on_message, whose callbacks
\* then fire) only once on_connect has been called for that session.
C36_NoCallbackBeforeConnect ==
    \A i \in 1..Len(fwd) : Connected(h[fwd[i]].client)

\* ---- approved addresses and their clients ----

\* no handler of the Connector is suspended: no scan-result handler, no
\* notification handler and no disconnect of the monitor
Quiescent ==
    /\ \A c \in ClientId : sc[c].pc \notin {"connect", "write", "notify", "disc"}
    /\ \A k \in FrameId : ~InProgress(k)
    /\ mon.pc # "gather"

\* C37: whenever no Connector operation is in progress, every approved address
\* has a tracked client.
C37_ApprovedHasClient ==
    Quiescent => \A a \in approved : clients[a] # 0

\* ---- the client of outbound writes ----

\* C38: a write task calls write_gatt_char only on a client whose address was
\* approved when trigger_haptics or request_model was called: once the
\* approved session has ended no outbound call reaches its old client.
C38_WritesToApprovedOnly ==
    \A i \in 1..Len(wire) : wire[i].appr

\* ---- frames without sensor data ----

\* C39: decoding a frame with an empty sensor batch raises no error, and the
\* rest of the frame is processed: its gesture part fires on_gesture, its
\* rotary part on_rotary once per entry and its pressure on_pressure.
C39_EmptySensorBatchDecoded ==
    (ended # "none" /\ message.sensorFrames = <<>>)
        => /\ ended = "returned"
           /\ ArgsOf("on_gesture") # <<>>
           /\ Len(ArgsOf("on_rotary")) = Len(message.rotaryEvents)
           /\ message.pressure # 0 => ArgsOf("on_pressure") = <<message.pressure>>

\* ---- teardown beside an approved session ----

\* a step of the teardown of a session of address b: its client is untracked
\* or the connection of one of its clients is closed
TornDown(b) ==
    \/ clients[b] # 0 /\ clients'[b] = 0
    \/ \E c \in ClientId : /\ AddrOf(c) = b
                           /\ link[c] # "closed"
                           /\ link'[c] = "closed"

\* C40: while address a is the one approved address and its client is tracked
\* and connected, no step of the teardown of a session of another device b
\* (connect timeout, decline, cleanup after a lost link) touches it: a stays
\* the approved address, its client stays tracked and connected, no start
\* request is made to the Scanner and a stays in the dedup set.
C40_ApprovedUntouched ==
    [][\A a, b \in Addr :
          (/\ a # b
           /\ approved = {a}
           /\ clients[a] # 0
           /\ link[clients[a]] = "connected"
           /\ TornDown(b))
              => /\ approved' = {a}
                 /\ clients'[a] = clients[a]
                 /\ link'[clients[a]] = "connected"
                 /\ start_event' = start_event
                 /\ a \in devices => a \in devices'
      ]_vars

\* witness of C40: device a was approved and on_connect was called; the other
\* device, whose frame arrived later, declined and its session was torn down;
\* a is still approved, tracked and connected
C40_Witness ==
    \E a \in Addr, k, j \in FrameId :
        /\ approved = {a}
        /\ Settled(a)
        /\ h[k].client = clients[a]
        /\ h[k].res = "ok"
        /\ k < j
        /\ h[j].sig
        /\ h[j].pc = "done"
        /\ AddrOf(h[j].client) # a
        /\ link[h[j].client] = "closed"

====
